---- MODULE Spec2Model ----
\* Model of the constraint back-end of pytea (packages/pytea/z3wrapper):
\* the path classifier CtrSet.analysis with its three staged solver queries,
\* and the two drivers Z3Encoder.analyze / PyTeaServer.analyze that run it
\* under the thread-based timeout decorator.
EXTENDS Integers, Sequences, FiniteSets, TLC

\* the classifier on one constraint set: the call of analysis in progress,
\* and the calls of analysis on the same object that returned before it
VARIABLES ctrSet, run, prior
\* a driver (Z3Encoder.analyze or PyTeaServer.analyze) on one document
VARIABLES entry, doc, dpc, cur, ctrsets, workers, res, buckets, console, result,
          order, timedOut, exc

\* a call into the encoder: the function, its argument, the interpretation
\* of the symbols under which its result is read, and the result
VARIABLES enc

classifierVars == <<ctrSet, run, prior>>

encoderVars == <<enc>>

driverVars == <<entry, doc, dpc, cur, ctrsets, workers, res, buckets, console, result,
                order, timedOut, exc>>

vars == <<classifierVars, driverVars, encoderVars>>

\* ---------------------------------------------------------------- bounds
\* number of interpretations ("worlds") the modelled solver decides over
NWorlds == 2
\* largest ctrPool of a constraint set given to the classifier
MaxPool == 3
\* largest number of paths of a document given to a driver
MaxPaths == 2

Worlds == 1..NWorlds

\* no call into the encoder is modelled
EncIdle == [fn |-> "none"]

\* ---------------------------------------------------------------- PathResult
Unreachable == 0
Valid == 1
Sat == 2
Unsat == 3
DontKnow == 4
Timeout == -1

\* ---------------------------------------------------------------- z3 terms
\* A z3 Boolean term is a tree. An encoded constraint is an atom, known by
\* the set of worlds in which it holds; And / Not / Implies are the z3
\* constructors the classifier applies on top. Two terms are the same z3
\* expression iff the trees are equal.
Atom(m) == [op |-> "atom", m |-> m, args |-> <<>>]

And(fs) == [op |-> "And", m |-> {}, args |-> fs]

Not(f) == [op |-> "Not", m |-> {}, args |-> <<f>>]

Implies(a, b) == [op |-> "Implies", m |-> {}, args |-> <<a, b>>]

RECURSIVE Models(_)
\* the worlds that satisfy term f
Models(f) ==
    CASE f.op = "atom" -> f.m
      [] f.op = "And" -> {w \in Worlds : \A i \in 1..Len(f.args) : w \in Models(f.args[i])}
      [] f.op = "Not" -> Worlds \ Models(f.args[1])
      [] f.op = "Implies" -> (Worlds \ Models(f.args[1])) \cup Models(f.args[2])

\* worlds satisfying every term of a sequence of assertions
ModelsOfAll(fs) == {w \in Worlds : \A i \in 1..Len(fs) : w \in Models(fs[i])}

\* str(s.check()) of a solver that decides the query
Decide(fs) == IF ModelsOfAll(fs) = {} THEN "unsat" ELSE "sat"

\* what s.check() may answer on the assertions fs: the solver is sound, and
\* it may give up
CheckAnswers(fs) == {Decide(fs), "unknown"}

\* ---------------------------------------------------------------- python values
\* extras is a dict; an entry is a key with a value that is an int or a list
PyInt(n) == [tag |-> "int", n |-> n, l |-> <<>>]

PyList(l) == [tag |-> "list", n |-> 0, l |-> l]

PyNone == [tag |-> "none", n |-> 0, l |-> <<>>]

PyBool(b) == [tag |-> "bool", n |-> (IF b THEN 1 ELSE 0), l |-> <<>>]

Entry(k, v) == [key |-> k, val |-> v]

Keys(d) == {e.key : e \in d}

\* list[i] of Python for a list kept as a sequence (0-based); a negative
\* index counts from the end
ListGet(l, i) == IF i >= 0 THEN l[i + 1] ELSE l[Len(l) + i + 1]

\* list(range(a, b))
Range(a, b) == [i \in 1..(IF b > a THEN b - a ELSE 0) |-> a + i - 1]

\* [f(x) for x in l]
Formulas(pool, idxs) == [i \in 1..Len(idxs) |-> ListGet(pool, idxs[i])]

\* ---------------------------------------------------------------- CtrSet
CtrSetOf(pool, hard, soft, path) ==
    [ctrPool |-> pool, hardIdx |-> hard, softIdx |-> soft, pathIdx |-> path,
     assumptions |-> Formulas(pool, hard),
     pathCtrs |-> Formulas(pool, path),
     softCtrs |-> Formulas(pool, soft)]

\* ---------------------------------------------------------------- classifier
\* The local state of one call of CtrSet.analysis between two solver calls:
\*   pc            the solver call the analysis is blocked in, or "done"
\*   s             the assertion stack (a sequence of frames) of checkSat's solver
\*   soft_list, last_soft_idx   checkSat's locals
\*   pos           position in softIdx of checkSat's loop (1-based)
\*   ret           <<>> while running, <<[type, log, extras]>> once returned
\*   queries       every solver call made so far, with its answer
NewRun ==
    [pc |-> "pathCondCheck", s |-> << <<>> >>, soft_list |-> <<>>,
     last_soft_idx |-> 0, pos |-> 1, ret |-> <<>>, queries |-> <<>>]

Query(stage, asserted, ans, idx) ==
    [stage |-> stage, asserted |-> asserted, answer |-> ans, idx |-> idx]

Return(r, type, log, extras) ==
    [r EXCEPT !.pc = "done", !.ret = <<[type |-> type, log |-> log, extras |-> extras]>>]

\* indices (sorted) of the first pool entry whose formula is the same z3
\* expression as each element of ctrs
FirstMatch(ctrPool, ctr) ==
    LET hits == {i \in 1..Len(ctrPool) : ctrPool[i] = ctr}
    IN  IF hits = {} THEN <<>>
        ELSE <<(CHOOSE i \in hits : \A j \in hits : i <= j) - 1>>

RECURSIVE MatchAll(_, _)
MatchAll(ctrPool, ctrs) ==
    IF ctrs = <<>> THEN <<>>
    ELSE FirstMatch(ctrPool, Head(ctrs)) \o MatchAll(ctrPool, Tail(ctrs))

findIndiceOfCtrs(ctrPool, ctrs) ==
    SortSeq(MatchAll(ctrPool, ctrs), LAMBDA a, b : a < b)

\* mutant: the reachability query also takes the soft constraints
pathCondFormula_WithSoft(cs) == And(cs.assumptions \o cs.pathCtrs \o cs.softCtrs)

\* the term pathCondCheck hands to s.check as its one assumption
pathCondFormula(cs) == And(cs.assumptions \o cs.pathCtrs)

\* pathCondCheck, given the solver's answer: (result, unsatIndice). The unsat
\* core of a check under one assumption is that assumption.
pathCondCheck(cs, ans) ==
    IF ans = "unsat"
    THEN [result |-> "unsat",
          unsatIndice |-> PyList(findIndiceOfCtrs(cs.ctrPool, <<pathCondFormula(cs)>>))]
    ELSE [result |-> "None", unsatIndice |-> PyNone]

\* mutant: the implication is asserted un-negated
validityFormula_NoNot(cs) ==
    IF Len(cs.softCtrs) = 0
    THEN And(cs.assumptions \o cs.pathCtrs)
    ELSE Implies(And(cs.assumptions \o cs.pathCtrs), And(cs.softCtrs))

\* the formula checkValidity adds to its solver
validityFormula(cs) ==
    IF Len(cs.softCtrs) = 0
    THEN And(cs.assumptions \o cs.pathCtrs)
    ELSE Not(Implies(And(cs.assumptions \o cs.pathCtrs), And(cs.softCtrs)))

\* mutant: sat is taken as valid whether the soft list is empty or not
checkValidity_SatIsValid(cs, ans) == IF ans = "sat" THEN "valid" ELSE "invalid"

\* checkValidity, given the solver's answer
checkValidity(cs, ans) ==
    IF Len(cs.softCtrs) = 0
    THEN (IF ans = "sat" THEN "valid" ELSE "invalid")
    ELSE (IF ans = "unsat" THEN "valid" ELSE "invalid")

\* solver stack operations
SolverAdd(s, f) == [s EXCEPT ![Len(s)] = Append(@, f)]

SolverPush(s) == Append(s, <<>>)

SolverPop(s) == SubSeq(s, 1, Len(s) - 1)

RECURSIVE Flatten(_)
Flatten(s) == IF s = <<>> THEN <<>> ELSE Head(s) \o Flatten(Tail(s))

\* one turn of checkSat's loop up to its s.check(): the locals at the check
checkSatAtCheck(cs, r) ==
    LET curr_soft_idx == cs.softIdx[r.pos]
        curr_list == Formulas(cs.ctrPool, Range(r.last_soft_idx, curr_soft_idx))
        curr_soft == ListGet(cs.ctrPool, curr_soft_idx)
        soft_list == Append(r.soft_list, curr_soft)
        s1 == SolverAdd(r.s, And(curr_list))
        s2 == SolverAdd(SolverPush(s1), Not(And(soft_list)))
    IN  [r EXCEPT !.s = s2, !.soft_list = soft_list]

\* mutant: the position in the soft list is returned instead of the pool index
checkSatAfterCheck_ListPosition(cs, r, ans) ==
    LET curr_soft_idx == cs.softIdx[r.pos]
        c == checkSatAtCheck(cs, r)
    IN  IF ans = "sat"
        THEN [done |-> TRUE, sat |-> Unsat, unsatIndice |-> PyInt(r.pos - 1), r |-> c]
        ELSE IF ans = "unsat"
        THEN LET n == [c EXCEPT !.s = SolverPop(c.s),
                                !.last_soft_idx = curr_soft_idx + 1,
                                !.pos = r.pos + 1]
             IN  IF n.pos > Len(cs.softIdx)
                 THEN [done |-> TRUE, sat |-> Sat, unsatIndice |-> PyNone, r |-> n]
                 ELSE [done |-> FALSE, sat |-> Sat, unsatIndice |-> PyNone, r |-> n]
        ELSE [done |-> TRUE, sat |-> DontKnow, unsatIndice |-> PyInt(curr_soft_idx), r |-> c]

\* mutant: every answer but sat is taken as unsat
checkSatAfterCheck_UnknownAsUnsat(cs, r, ans) ==
    LET curr_soft_idx == cs.softIdx[r.pos]
        c == checkSatAtCheck(cs, r)
    IN  IF ans = "sat"
        THEN [done |-> TRUE, sat |-> Unsat, unsatIndice |-> PyInt(curr_soft_idx), r |-> c]
        ELSE LET n == [c EXCEPT !.s = SolverPop(c.s),
                                !.last_soft_idx = curr_soft_idx + 1,
                                !.pos = r.pos + 1]
             IN  IF n.pos > Len(cs.softIdx)
                 THEN [done |-> TRUE, sat |-> Sat, unsatIndice |-> PyNone, r |-> n]
                 ELSE [done |-> FALSE, sat |-> Sat, unsatIndice |-> PyNone, r |-> n]

\* the rest of that turn, given the answer: checkSat's return value
\* (done, sat, unsatIndice), or the locals at the start of the next turn
checkSatAfterCheck(cs, r, ans) ==
    LET curr_soft_idx == cs.softIdx[r.pos]
        c == checkSatAtCheck(cs, r)
    IN  IF ans = "sat"
        THEN [done |-> TRUE, sat |-> Unsat, unsatIndice |-> PyInt(curr_soft_idx), r |-> c]
        ELSE IF ans = "unsat"
        THEN LET n == [c EXCEPT !.s = SolverPop(c.s),
                                !.last_soft_idx = curr_soft_idx + 1,
                                !.pos = r.pos + 1]
             IN  IF n.pos > Len(cs.softIdx)
                 THEN [done |-> TRUE, sat |-> Sat, unsatIndice |-> PyNone, r |-> n]
                 ELSE [done |-> FALSE, sat |-> Sat, unsatIndice |-> PyNone, r |-> n]
        ELSE [done |-> TRUE, sat |-> DontKnow, unsatIndice |-> PyInt(curr_soft_idx), r |-> c]

\* mutant: the undecided soft constraint is filed under conflict
analysisOfSat_UndecideAsConflict(r, sat, unsatIndice) ==
    IF sat = Sat
    THEN Return(r, Valid, "Valid path", {})
    ELSE IF sat = Unreachable
    THEN Return(r, sat, "Unreachable path", {Entry("conflict", unsatIndice)})
    ELSE IF sat = Unsat
    THEN Return(r, sat, "Invalid path", {Entry("conflict", unsatIndice)})
    ELSE Return(r, DontKnow, "Undecidable path", {Entry("conflict", unsatIndice)})

\* analysis, from the return of checkSat to its own return
analysisOfSat(r, sat, unsatIndice) ==
    IF sat = Sat
    THEN Return(r, Valid, "Valid path", {})
    ELSE IF sat = Unreachable
    THEN Return(r, sat, "Unreachable path", {Entry("conflict", unsatIndice)})
    ELSE IF sat = Unsat
    THEN Return(r, sat, "Invalid path", {Entry("conflict", unsatIndice)})
    ELSE Return(r, DontKnow, "Undecidable path", {Entry("undecide", unsatIndice)})

\* mutant: the Unreachable report carries no extras
analysisOfPathCond_NoExtras(cs, r, ans) ==
    LET pc == pathCondCheck(cs, ans)
        q  == [r EXCEPT !.queries = Append(@, Query("pathCondCheck", <<pathCondFormula(cs)>>, ans, -1))]
    IN  IF pc.result = "unsat"
        THEN Return(q, Unreachable, "Unreachable path", {})
        ELSE [q EXCEPT !.pc = "checkValidity"]

\* analysis, from the return of pathCondCheck to the next solver call
analysisOfPathCond(cs, r, ans) ==
    LET pc == pathCondCheck(cs, ans)
        q  == [r EXCEPT !.queries = Append(@, Query("pathCondCheck", <<pathCondFormula(cs)>>, ans, -1))]
    IN  IF pc.result = "unsat"
        THEN Return(q, Unreachable, "Unreachable path", {Entry("conflict", pc.unsatIndice)})
        ELSE [q EXCEPT !.pc = "checkValidity"]

\* mutant: a path without soft constraints whose premise is not answered sat
\* is reported undecidable
analysisOfValidity_EmptyUndecided(cs, r, ans) ==
    LET q == [r EXCEPT !.queries = Append(@, Query("checkValidity", <<validityFormula(cs)>>, ans, -1))]
    IN  IF checkValidity(cs, ans) = "valid"
        THEN Return(q, Valid, "Valid path", {})
        ELSE IF Len(cs.softIdx) = 0
        THEN analysisOfSat(q, DontKnow, PyNone)
        ELSE [q EXCEPT !.pc = "checkSat"]

\* analysis, from the return of checkValidity to the next solver call; a
\* checkSat over an empty softIdx returns without a solver call
analysisOfValidity(cs, r, ans) ==
    LET q == [r EXCEPT !.queries = Append(@, Query("checkValidity", <<validityFormula(cs)>>, ans, -1))]
    IN  IF checkValidity(cs, ans) = "valid"
        THEN Return(q, Valid, "Valid path", {})
        ELSE IF Len(cs.softIdx) = 0
        THEN analysisOfSat(q, Sat, PyNone)
        ELSE [q EXCEPT !.pc = "checkSat"]

\* analysis, from the return of an s.check() of checkSat to the next solver call
analysisOfCheckSat(cs, r, ans) ==
    LET c == checkSatAtCheck(cs, r)
        a == checkSatAfterCheck(cs, r, ans)
        q == [a.r EXCEPT !.queries = Append(@, Query("checkSat", Flatten(c.s), ans, cs.softIdx[r.pos]))]
    IN  IF a.done THEN analysisOfSat(q, a.sat, a.unsatIndice) ELSE q

\* the assertions of the solver call the analysis is blocked in
PendingQuery(cs, r) ==
    CASE r.pc = "pathCondCheck" -> <<pathCondFormula(cs)>>
      [] r.pc = "checkValidity" -> <<validityFormula(cs)>>
      [] r.pc = "checkSat" -> Flatten(checkSatAtCheck(cs, r).s)

\* analysis resumed with the answer of the pending solver call
analysis(cs, r, ans) ==
    CASE r.pc = "pathCondCheck" -> analysisOfPathCond(cs, r, ans)
      [] r.pc = "checkValidity" -> analysisOfValidity(cs, r, ans)
      [] r.pc = "checkSat" -> analysisOfCheckSat(cs, r, ans)

\* ---------------------------------------------------------------- drivers
\* A path of the document (a jsonCtrSet): the pool entries with the formula
\* each encodes to, or encodes = FALSE for an entry whose encoding raises
JsonCtr(f) == [encodes |-> TRUE, formula |-> f]

JsonCtrRaising == [encodes |-> FALSE, formula |-> Atom({})]

JsonCtrSet(pool, hard, soft, path) ==
    [ctrPool |-> pool, hardCtr |-> hard, softCtr |-> soft, pathCtr |-> path]

\* the documents' paths: a valid path (soft true), an invalid one (the soft
\* entry fails in a world the hard entry allows), an unreachable one (two
\* contradicting path constraints), and one with an entry that does not encode
PathDocs ==
    {JsonCtrSet(<<JsonCtr(Atom(Worlds))>>, <<>>, <<0>>, <<>>),
     JsonCtrSet(<<JsonCtr(Atom(Worlds \ {1})), JsonCtr(Atom(Worlds \ {2}))>>, <<0>>, <<1>>, <<>>),
     JsonCtrSet(<<JsonCtr(Atom({1})), JsonCtr(Atom(Worlds \ {1})), JsonCtr(Atom(Worlds))>>,
                <<>>, <<2>>, <<0, 1>>),
     JsonCtrSet(<<JsonCtr(Atom(Worlds)), JsonCtrRaising>>, <<>>, <<0, 1>>, <<>>)}

\* Ctr.__init__ raises on some entry of the pool
CtrSetRaises(j) == \E k \in 1..Len(j.ctrPool) : ~j.ctrPool[k].encodes

\* CtrSet(jsonCtrSet) when no entry raises
CtrSetNew(j) ==
    CtrSetOf([k \in 1..Len(j.ctrPool) |-> j.ctrPool[k].formula],
             j.hardCtr, j.softCtr, j.pathCtr)

NoCtrSet == CtrSetOf(<<>>, <<>>, <<>>, <<>>)

\* a worker thread of the timeout decorator: not started, running func, or
\* ended; run is the state of its call of ctrSet.analysis
NoWorker == [state |-> "none", run |-> NewRun]

EmptyBuckets ==
    [UnreachablePaths |-> <<>>, ValidPaths |-> <<>>, SatPaths |-> <<>>,
     UnsatPaths |-> <<>>, DontknowPaths |-> <<>>]

DriverIdle ==
    /\ entry = "none"
    /\ doc = <<>>
    /\ dpc = "idle"
    /\ cur = 0
    /\ ctrsets = <<>>
    /\ workers = <<>>
    /\ res = <<>>
    /\ buckets = EmptyBuckets
    /\ console = <<>>
    /\ result = <<>>
    /\ order = <<>>
    /\ timedOut = {}
    /\ exc = "none"

Running == {k \in 1..Len(workers) : workers[k].state = "running"}

\* the threads live as long as the process: the command-line run ends when
\* analyze returns or raises, the server goes on serving
ProcessAlive ==
    /\ dpc # "crashed"
    /\ entry = "PyTeaServer" \/ dpc \notin {"done", "raised"}

\* worker k uses the z3 main context while another thread is inside it
Racing(k) == Running \ {k} # {}

\* the answers a check of worker k may give: the solver's, or, when another
\* thread works on the same context at the same time, anything
WorkerAnswers(k) ==
    IF Racing(k) THEN {"sat", "unsat", "unknown"}
    ELSE CheckAnswers(PendingQuery(ctrsets[k], workers[k].run))

\* mutant: an Unreachable path is filed in no bucket
cliClassify_UnreachableUnfiled(b, log, pathIdx, pathResult) ==
    IF pathResult = Valid
    THEN [b |-> [b EXCEPT !.ValidPaths = Append(@, pathIdx)], log |-> log]
    ELSE IF pathResult = Sat
    THEN [b |-> [b EXCEPT !.SatPaths = Append(@, pathIdx)], log |-> log]
    ELSE IF pathResult = Unsat
    THEN [b |-> [b EXCEPT !.UnsatPaths = Append(@, pathIdx)],
          log |-> Append(log, [kind |-> "Errornous Path", path |-> pathIdx + 1])]
    ELSE IF pathResult = Unreachable
    THEN [b |-> b, log |-> log]
    ELSE [b |-> [b EXCEPT !.DontknowPaths = Append(@, pathIdx)],
          log |-> Append(log, [kind |-> "Undecidable Path", path |-> pathIdx + 1])]

\* Z3Encoder.analyze appends pathIdx (0-based) to the bucket of pathResult
cliClassify(b, log, pathIdx, pathResult) ==
    IF pathResult = Valid
    THEN [b |-> [b EXCEPT !.ValidPaths = Append(@, pathIdx)], log |-> log]
    ELSE IF pathResult = Sat
    THEN [b |-> [b EXCEPT !.SatPaths = Append(@, pathIdx)], log |-> log]
    ELSE IF pathResult = Unsat
    THEN [b |-> [b EXCEPT !.UnsatPaths = Append(@, pathIdx)],
          log |-> Append(log, [kind |-> "Errornous Path", path |-> pathIdx + 1])]
    ELSE IF pathResult = Unreachable
    THEN [b |-> [b EXCEPT !.UnreachablePaths = Append(@, pathIdx)], log |-> log]
    ELSE [b |-> [b EXCEPT !.DontknowPaths = Append(@, pathIdx)],
          log |-> Append(log, [kind |-> "Undecidable Path", path |-> pathIdx + 1])]

\* mutant: the except branch logs the timeout and files the path nowhere
cliOnTimeout_NoAppend(b, log, pathIdx) ==
    [b |-> b, log |-> Append(log, [kind |-> "Timeout Path", path |-> pathIdx + 1])]

\* Z3Encoder.analyze, except TimeoutError
cliOnTimeout(b, log, pathIdx) ==
    [b |-> [b EXCEPT !.DontknowPaths = Append(@, pathIdx)],
     log |-> Append(log, [kind |-> "Timeout Path", path |-> pathIdx + 1])]

\* PyTeaServer.analyze: result_obj of a returned analysis
serverResultObj(ret) == [type |-> ret.type, extras |-> ret.extras]

\* mutant: a timeout is reported as DontKnow with a timeout extra
serverTimeoutObj_DontKnow == [type |-> DontKnow, extras |-> {Entry("timeout", PyBool(TRUE))}]

\* PyTeaServer.analyze: result_obj under except TimeoutError
serverTimeoutObj == [type |-> Timeout, extras |-> {}]

\* Z3Encoder.analyze: the closing summary, one line per non-empty bucket
summaryLines(b, n) ==
    <<[kind |-> "OVERALL", path |-> n]>>
    \o (IF Len(b.ValidPaths) + Len(b.SatPaths) # 0
        THEN <<[kind |-> "Valid paths", path |-> Len(b.ValidPaths) + Len(b.SatPaths)]>> ELSE <<>>)
    \o (IF Len(b.UnsatPaths) # 0
        THEN <<[kind |-> "Invalid paths", path |-> Len(b.UnsatPaths)]>> ELSE <<>>)
    \o (IF Len(b.DontknowPaths) # 0
        THEN <<[kind |-> "Undecidable paths", path |-> Len(b.DontknowPaths)]>> ELSE <<>>)
    \o (IF Len(b.UnreachablePaths) # 0
        THEN <<[kind |-> "Unreachable paths", path |-> Len(b.UnreachablePaths)]>> ELSE <<>>)

DriverInit ==
    /\ ctrSet = NoCtrSet
    /\ run = NewRun
    /\ prior = <<>>
    /\ enc = EncIdle
    /\ entry \in {"Z3Encoder", "PyTeaServer"}
    /\ \E n \in 0..MaxPaths : doc \in [1..n -> PathDocs]
    /\ dpc = "start"
    /\ cur = 1
    /\ ctrsets = [k \in 1..Len(doc) |-> NoCtrSet]
    /\ workers = [k \in 1..Len(doc) |-> NoWorker]
    /\ res = [k \in 1..Len(doc) |-> "unset"]
    /\ buckets = EmptyBuckets
    /\ console = <<>>
    /\ result = <<>>
    /\ order = <<>>
    /\ timedOut = {}
    /\ exc = "none"

\* Z3Encoder.analyze up to its loop: an empty document is logged and nothing
\* else happens; ctrSetList is a lazy map, nothing is constructed yet
CliStart ==
    /\ entry = "Z3Encoder" /\ dpc = "start"
    /\ IF Len(doc) = 0
       THEN /\ console' = Append(console, [kind |-> "no paths entered", path |-> 0])
            /\ dpc' = "done"
       ELSE /\ dpc' = "loop"
            /\ UNCHANGED console
    /\ UNCHANGED <<classifierVars, encoderVars, entry, doc, cur, ctrsets, workers, res, buckets,
                   result, order, timedOut, exc>>

\* PyTeaServer.analyze up to its loop: list(map(CtrSet, obj_list)) constructs
\* every constraint set; an entry that does not encode raises out of analyze
ServerStart ==
    /\ entry = "PyTeaServer" /\ dpc = "start"
    /\ IF \E k \in 1..Len(doc) : CtrSetRaises(doc[k])
       THEN /\ dpc' = "raised"
            /\ exc' = "EncodeError"
            /\ UNCHANGED ctrsets
       ELSE /\ dpc' = "loop"
            /\ ctrsets' = [k \in 1..Len(doc) |-> CtrSetNew(doc[k])]
            /\ UNCHANGED exc
    /\ UNCHANGED <<classifierVars, encoderVars, entry, doc, cur, workers, res, buckets, console,
                   result, order, timedOut>>

\* the loop head with a path left: (Z3Encoder: the lazy map constructs the
\* path's CtrSet, which may raise out of analyze;) timeout(5)(ctrSet.analysis)
\* is called: res = [TimeoutError], the thread is started
StartPath ==
    /\ dpc = "loop" /\ cur <= Len(doc)
    /\ IF entry = "Z3Encoder" /\ CtrSetRaises(doc[cur])
       THEN /\ dpc' = "raised"
            /\ exc' = "EncodeError"
            /\ UNCHANGED <<ctrsets, workers, res>>
       ELSE /\ ctrsets' = [ctrsets EXCEPT ![cur] = CtrSetNew(doc[cur])]
            /\ res' = [res EXCEPT ![cur] = "TimeoutError"]
            /\ workers' = [workers EXCEPT ![cur] = [state |-> "running", run |-> NewRun]]
            /\ dpc' = "join"
            /\ UNCHANGED exc
    /\ UNCHANGED <<classifierVars, encoderVars, entry, doc, cur, buckets, console, result, order, timedOut>>

\* Z3Encoder.analyze encodes the next path in the driver thread while the
\* thread of an earlier path is still inside the same z3 context: the
\* construction may raise, or bring the process down
ConstructRaceFails ==
    /\ entry = "Z3Encoder" /\ dpc = "loop" /\ cur <= Len(doc)
    /\ Running # {}
    /\ \/ dpc' = "raised" /\ exc' = "Z3Exception"
       \/ dpc' = "crashed" /\ UNCHANGED exc
    /\ UNCHANGED <<classifierVars, encoderVars, entry, doc, cur, ctrsets, workers, res, buckets,
                   console, result, order, timedOut>>

\* mutant: the calls share one slot, a store shows in the slot of every call
storeResult_SharedSlot(slots, k, v) == [j \in DOMAIN slots |-> v]

\* newFunc of the call for path k: res[0] = ..., res being the list the
\* wrapper of that call made
storeResult(slots, k, v) == [slots EXCEPT ![k] = v]

\* the worker thread of path k: one solver call of ctrSet.analysis returns;
\* when analysis returns, newFunc stores the value in the call's slot (the
\* history of the queries is not kept here)
WorkerStep(k, stage) ==
    /\ ProcessAlive
    /\ workers[k].state = "running"
    /\ workers[k].run.pc = stage
    /\ \E ans \in WorkerAnswers(k) :
          LET r == [analysis(ctrsets[k], workers[k].run, ans) EXCEPT !.queries = <<>>]
          IN  /\ workers' = [workers EXCEPT ![k] =
                    [state |-> IF r.pc = "done" THEN "ended" ELSE "running", run |-> r]]
              /\ res' = IF r.pc = "done" THEN storeResult(res, k, "value") ELSE res
    /\ UNCHANGED <<classifierVars, encoderVars, entry, doc, dpc, cur, ctrsets, buckets, console,
                   result, order, timedOut, exc>>

WorkerPathCondCheck == \E k \in 1..Len(doc) : WorkerStep(k, "pathCondCheck")

WorkerCheckValidity == \E k \in 1..Len(doc) : WorkerStep(k, "checkValidity")

WorkerCheckSat == \E k \in 1..Len(doc) : WorkerStep(k, "checkSat")

\* a z3 call of worker k while another thread is inside the same context
\* raises: newFunc stores the exception in the call's slot
WorkerRaceRaises ==
    /\ ProcessAlive
    /\ \E k \in 1..Len(doc) :
          /\ workers[k].state = "running"
          /\ Racing(k)
          /\ workers' = [workers EXCEPT ![k].state = "ended"]
          /\ res' = storeResult(res, k, "Z3Exception")
    /\ UNCHANGED <<classifierVars, encoderVars, entry, doc, dpc, cur, ctrsets, buckets, console,
                   result, order, timedOut, exc>>

\* or it brings the process down
WorkerRaceCrashes ==
    /\ ProcessAlive
    /\ \E k \in 1..Len(doc) : workers[k].state = "running" /\ Racing(k)
    /\ dpc' = "crashed"
    /\ UNCHANGED <<classifierVars, encoderVars, entry, doc, cur, ctrsets, workers, res, buckets,
                   console, result, order, timedOut, exc>>

\* t.join(timeout) returns: the thread has ended, or the timeout has passed
JoinReturns ==
    /\ dpc = "join"
    /\ dpc' = "read"
    /\ UNCHANGED <<classifierVars, encoderVars, entry, doc, cur, ctrsets, workers, res, buckets,
                   console, result, order, timedOut, exc>>

\* ret = res[0] and the rest of the loop body: the value is classified, a
\* TimeoutError is handled, any other exception leaves analyze
ReadResult ==
    /\ dpc = "read"
    /\ IF res[cur] = "Z3Exception"
       THEN /\ dpc' = "raised"
            /\ exc' = "Z3Exception"
            /\ UNCHANGED <<cur, buckets, console, result, order, timedOut>>
       ELSE /\ dpc' = "loop"
            /\ cur' = cur + 1
            /\ order' = Append(order, cur)
            /\ timedOut' = IF res[cur] = "TimeoutError" THEN timedOut \cup {cur} ELSE timedOut
            /\ UNCHANGED exc
            /\ IF entry = "Z3Encoder"
               THEN LET c == IF res[cur] = "TimeoutError"
                             THEN cliOnTimeout(buckets, console, cur - 1)
                             ELSE cliClassify(buckets, console, cur - 1,
                                              workers[cur].run.ret[1].type)
                    IN  /\ buckets' = c.b
                        /\ console' = c.log
                        /\ UNCHANGED result
               ELSE /\ result' = Append(result,
                                        IF res[cur] = "TimeoutError"
                                        THEN serverTimeoutObj
                                        ELSE serverResultObj(workers[cur].run.ret[1]))
                    /\ UNCHANGED <<buckets, console>>
    /\ UNCHANGED <<classifierVars, encoderVars, entry, doc, ctrsets, workers, res>>

\* the loop is over: Z3Encoder.analyze logs the summary, PyTeaServer.analyze
\* returns result
Finish ==
    /\ dpc = "loop" /\ cur > Len(doc)
    /\ dpc' = "done"
    /\ console' = IF entry = "Z3Encoder"
                  THEN console \o summaryLines(buckets, Len(doc)) ELSE console
    /\ UNCHANGED <<classifierVars, encoderVars, entry, doc, cur, ctrsets, workers, res, buckets,
                   result, order, timedOut, exc>>

DriverNext ==
    \/ CliStart
    \/ ServerStart
    \/ StartPath
    \/ ConstructRaceFails
    \/ WorkerPathCondCheck
    \/ WorkerCheckValidity
    \/ WorkerCheckSat
    \/ WorkerRaceRaises
    \/ WorkerRaceCrashes
    \/ JoinReturns
    \/ ReadResult
    \/ Finish

SpecDriver == DriverInit /\ [][DriverNext]_vars

\* the steps of the thread that runs analyze; t.join(5) returns after five
\* seconds at the latest, whatever the worker does
DriverThread ==
    \/ CliStart
    \/ ServerStart
    \/ StartPath
    \/ ConstructRaceFails
    \/ JoinReturns
    \/ ReadResult
    \/ Finish

\* the drivers with the thread of analyze scheduled fairly; nothing is
\* assumed of the workers, whose solver calls may never return
SpecDriverLive == DriverInit /\ [][DriverNext]_vars /\ WF_vars(DriverThread)

\* ---------------------------------------------------------------- inputs
\* the encoded constraints of the inputs: false, true, or ruling out one
\* world (every set of worlds is a conjunction of these)
AtomTerms == {Atom({}), Atom(Worlds)} \cup {Atom(Worlds \ {w}) : w \in Worlds}

Roles == {"hard", "path", "soft", "none"}

\* the indices with a role, in ascending pool order
RECURSIVE Ascending(_)
Ascending(S) ==
    IF S = {} THEN <<>>
    ELSE LET x == CHOOSE x \in S : \A y \in S : x <= y
         IN  <<x>> \o Ascending(S \ {x})

Perms(S) ==
    {p \in [1..Cardinality(S) -> S] : \A i, j \in 1..Cardinality(S) : i # j => p[i] # p[j]}

\* constraint sets as the front end emits them: every pool entry is in at
\* most one index list, each list without repetition; hard and path ascending
CtrSetInput(n, pool, role, soft) ==
    CtrSetOf(pool,
             Ascending({i \in 0..(n - 1) : role[i] = "hard"}),
             soft,
             Ascending({i \in 0..(n - 1) : role[i] = "path"}))

\* a constraint set whose third pool entry is the constraint And(left, right)
\* of its hard entry and its path entry (Ctr._encodeAnd)
CtrSetWithAnd(a, b, third) ==
    CtrSetOf(<<a, b, And(<<a, b>>)>>, <<0>>, IF third = "soft" THEN <<2>> ELSE <<>>, <<1>>)

\* ---------------------------------------------------------------- Spec
Init ==
    /\ \/ \E n \in 0..MaxPool :
            \E pool \in [1..n -> AtomTerms] :
              \E role \in [0..(n - 1) -> Roles] :
                \E soft \in Perms({i \in 0..(n - 1) : role[i] = "soft"}) :
                  ctrSet = CtrSetInput(n, pool, role, soft)
       \/ \E a, b \in AtomTerms : \E third \in {"soft", "none"} :
            ctrSet = CtrSetWithAnd(a, b, third)
    /\ run = NewRun
    /\ prior = <<>>
    /\ DriverIdle
    /\ enc = EncIdle

PathCondCheck ==
    /\ run.pc = "pathCondCheck"
    /\ \E ans \in CheckAnswers(PendingQuery(ctrSet, run)) :
          run' = analysis(ctrSet, run, ans)
    /\ UNCHANGED <<ctrSet, prior, driverVars, encoderVars>>

CheckValidity ==
    /\ run.pc = "checkValidity"
    /\ \E ans \in CheckAnswers(PendingQuery(ctrSet, run)) :
          run' = analysis(ctrSet, run, ans)
    /\ UNCHANGED <<ctrSet, prior, driverVars, encoderVars>>

CheckSat ==
    /\ run.pc = "checkSat"
    /\ \E ans \in CheckAnswers(PendingQuery(ctrSet, run)) :
          run' = analysis(ctrSet, run, ans)
    /\ UNCHANGED <<ctrSet, prior, driverVars, encoderVars>>

Next == PathCondCheck \/ CheckValidity \/ CheckSat

Spec == Init /\ [][Next]_vars

\* ---------------------------------------------------------------- SpecRerun
\* analysis called twice on the same CtrSet object, with a solver that gives
\* the same answer whenever it is asked the same query

\* mutant: checkSat's solver object outlives the call
Rerun_KeepSolver(r) == [NewRun EXCEPT !.s = r.s]

\* the locals of a further call of analysis after the call r returned: every
\* stage makes its own Solver() and its own lists
Rerun(r) == NewRun

\* the queries answered so far, in the earlier calls and in this one
Asked == Flatten([k \in 1..Len(prior) |-> prior[k].queries]) \o run.queries

\* the answers a solver that repeats itself may give to the pending query
ConsistentAnswers ==
    {ans \in CheckAnswers(PendingQuery(ctrSet, run)) :
        \A q \in 1..Len(Asked) :
            Asked[q].asserted = PendingQuery(ctrSet, run) => Asked[q].answer = ans}

\* two calls follow each input: the pools are one entry shorter than Init's
InitRerun ==
    /\ \E n \in 0..(MaxPool - 1) :
         \E pool \in [1..n -> AtomTerms] :
           \E role \in [0..(n - 1) -> Roles] :
             \E soft \in Perms({i \in 0..(n - 1) : role[i] = "soft"}) :
               ctrSet = CtrSetInput(n, pool, role, soft)
    /\ run = NewRun
    /\ prior = <<>>
    /\ DriverIdle
    /\ enc = EncIdle

RerunCheck ==
    /\ run.pc # "done"
    /\ \E ans \in ConsistentAnswers : run' = analysis(ctrSet, run, ans)
    /\ UNCHANGED <<ctrSet, prior, driverVars, encoderVars>>

AnalyseAgain ==
    /\ run.pc = "done"
    /\ prior = <<>>
    /\ prior' = Append(prior, run)
    /\ run' = Rerun(run)
    /\ UNCHANGED <<ctrSet, driverVars, encoderVars>>

NextRerun == RerunCheck \/ AnalyseAgain

SpecRerun == InitRerun /\ [][NextRerun]_vars

\* ---------------------------------------------------------------- encoder: bounds
\* largest rank of a constant or symbolic shape given to the encoder
MaxRank == 2
\* largest dimension of such a shape
MaxDim == 3

\* ---------------------------------------------------------------- encoder: z3 terms
\* The terms the encoder builds with the z3 Python API, as trees. Int("i") is
\* the variable every Lambda and ForAll of the encoder binds.
Z3(op, sort, args) == [op |-> op, sort |-> sort, args |-> args, n |-> 0, d |-> 1, name |-> ""]

IntVal(n) == [Z3("IntVal", "Int", <<>>) EXCEPT !.n = n]

RealVal(n, d) == [Z3("RealVal", "Real", <<>>) EXCEPT !.n = n, !.d = d]

BoolVal(b) == [Z3("BoolVal", "Bool", <<>>) EXCEPT !.n = IF b THEN 1 ELSE 0]

Z3Int(name) == [Z3("Const", "Int", <<>>) EXCEPT !.name = name]

Real(name) == [Z3("Const", "Real", <<>>) EXCEPT !.name = name]

Array(name) == [Z3("Const", "Array", <<>>) EXCEPT !.name = name]

\* Python's None, where a function falls off its end
NoneVal == Z3("None", "None", <<>>)

ToReal(a) == Z3("ToReal", "Real", <<a>>)

ToInt(a) == Z3("ToInt", "Int", <<a>>)

\* the z3 Python operators coerce an Int operand to Real when the other
\* operand is Real (a Python number takes the sort of the other operand)
MergeSort(a, b) == IF a.sort = "Real" \/ b.sort = "Real" THEN "Real" ELSE a.sort

Coerce(a, s) == IF a.sort = "Int" /\ s = "Real" THEN ToReal(a) ELSE a

\* a + b, a - b, a * b, a / b, a % b
Arith(op, a, b) ==
    LET s == MergeSort(a, b) IN Z3(op, s, <<Coerce(a, s), Coerce(b, s)>>)

\* a == b, a != b, a < b, a <= b, a >= b
Rel(op, a, b) ==
    LET s == MergeSort(a, b) IN Z3(op, "Bool", <<Coerce(a, s), Coerce(b, s)>>)

Neg(a) == Z3("Neg", a.sort, <<a>>)

If(c, a, b) ==
    LET s == MergeSort(a, b) IN Z3("If", s, <<c, Coerce(a, s), Coerce(b, s)>>)

Or(fs) == Z3("Or", "Bool", fs)

Select(a, i) == Z3("Select", "Int", <<a, i>>)

Store(a, i, v) == Z3("Store", "Array", <<a, i, v>>)

K(v) == Z3("K", "Array", <<v>>)

\* Lambda([i], body) and ForAll([i], body)
Lambda(body) == Z3("Lambda", "Array", <<body>>)

ForAll(body) == Z3("ForAll", "Bool", <<body>>)

z3_div(a, b) == If(Rel("!=", b, IntVal(0)), Arith("/", a, b), IntVal(-1))

z3_mod(a, b) == If(Rel("!=", b, IntVal(0)), Arith("%", a, b), IntVal(-1))

z3_max(a, b) == If(Rel("<", a, b), b, a)

z3_min(a, b) == If(Rel("<", b, a), b, a)

\* prod(shape, lb, ub), the application of the recursive function of Numel
Prod(shape, lb, ub) == Z3("Prod", "Int", <<shape, lb, ub>>)

\* ---------------------------------------------------------------- encoder: meaning of z3 terms
\* numbers are rationals n/d in lowest terms, d > 0
Abs(x) == IF x < 0 THEN -x ELSE x

RECURSIVE GCD(_, _)
GCD(a, b) == IF b = 0 THEN a ELSE GCD(b, a % b)

Rat(n, d) ==
    LET g == GCD(Abs(n), Abs(d))
        sg == IF d < 0 THEN -1 ELSE 1
    IN  [n |-> (sg * n) \div g, d |-> (sg * d) \div g]

RatAdd(a, b) == Rat(a.n * b.d + b.n * a.d, a.d * b.d)

RatSub(a, b) == Rat(a.n * b.d - b.n * a.d, a.d * b.d)

RatMul(a, b) == Rat(a.n * b.n, a.d * b.d)

RatDiv(a, b) == Rat(a.n * b.d, a.d * b.n)

RatLt(a, b) == a.n * b.d < b.n * a.d

\* floor(n / d) for d > 0
FloorOf(n, d) == IF n >= 0 THEN n \div d ELSE -((-n + d - 1) \div d)

\* integer division and remainder of the SMT theory of integers, b # 0: the
\* remainder is never negative
SmtDiv(a, b) == IF b > 0 THEN FloorOf(a, b) ELSE -FloorOf(a, -b)

SmtMod(a, b) == a - b * SmtDiv(a, b)

\* indices over which the quantifiers and array equalities are decided: wide
\* enough for every rank, sum of ranks and axis of the inputs
IdxWindow == (-(2 * MaxRank + 2))..(2 * MaxRank + 2)

\* An interpretation env gives the integer symbols (num), the array symbols
\* (arr, over 0..MaxRank-1 and 0 elsewhere) and the bound variable (i).
RECURSIVE EvalNum(_, _)
RECURSIVE EvalBool(_, _)
RECURSIVE EvalSelect(_, _, _)
RECURSIVE ProdOf(_, _, _, _)
\* the value of a numeric term
EvalNum(t, env) ==
    CASE t.op = "IntVal" -> Rat(t.n, 1)
      [] t.op = "RealVal" -> Rat(t.n, t.d)
      [] t.op = "Const" -> IF t.name = "i" THEN Rat(env.i, 1) ELSE Rat(env.num[t.name], 1)
      [] t.op = "ToReal" -> EvalNum(t.args[1], env)
      [] t.op = "ToInt" -> LET a == EvalNum(t.args[1], env) IN Rat(FloorOf(a.n, a.d), 1)
      [] t.op = "+" -> RatAdd(EvalNum(t.args[1], env), EvalNum(t.args[2], env))
      [] t.op = "-" -> RatSub(EvalNum(t.args[1], env), EvalNum(t.args[2], env))
      [] t.op = "*" -> RatMul(EvalNum(t.args[1], env), EvalNum(t.args[2], env))
      [] t.op = "/" ->
            LET a == EvalNum(t.args[1], env)
                b == EvalNum(t.args[2], env)
            IN  IF t.sort = "Int" THEN Rat(SmtDiv(a.n, b.n), 1) ELSE RatDiv(a, b)
      [] t.op = "%" ->
            Rat(SmtMod(EvalNum(t.args[1], env).n, EvalNum(t.args[2], env).n), 1)
      [] t.op = "Neg" -> RatSub(Rat(0, 1), EvalNum(t.args[1], env))
      [] t.op = "If" ->
            IF EvalBool(t.args[1], env) THEN EvalNum(t.args[2], env)
            ELSE EvalNum(t.args[3], env)
      [] t.op = "Select" ->
            Rat(EvalSelect(t.args[1], EvalNum(t.args[2], env).n, env), 1)
      [] t.op = "Prod" ->
            Rat(ProdOf(t.args[1], EvalNum(t.args[2], env).n, EvalNum(t.args[3], env).n, env), 1)

\* the definition of prod: If(lb > ub, 1, shape[lb] * prod(shape, lb + 1, ub))
ProdOf(a, lb, ub, env) ==
    IF lb > ub THEN 1 ELSE EvalSelect(a, lb, env) * ProdOf(a, lb + 1, ub, env)

\* the truth of a Boolean term
EvalBool(t, env) ==
    CASE t.op = "BoolVal" -> t.n = 1
      [] t.op = "==" ->
            IF t.args[1].sort = "Array"
            THEN \A k \in IdxWindow :
                    EvalSelect(t.args[1], k, env) = EvalSelect(t.args[2], k, env)
            ELSE EvalNum(t.args[1], env) = EvalNum(t.args[2], env)
      [] t.op = "!=" ->
            IF t.args[1].sort = "Array"
            THEN \E k \in IdxWindow :
                    EvalSelect(t.args[1], k, env) # EvalSelect(t.args[2], k, env)
            ELSE EvalNum(t.args[1], env) # EvalNum(t.args[2], env)
      [] t.op = "<" -> RatLt(EvalNum(t.args[1], env), EvalNum(t.args[2], env))
      [] t.op = "<=" -> ~RatLt(EvalNum(t.args[2], env), EvalNum(t.args[1], env))
      [] t.op = ">=" -> ~RatLt(EvalNum(t.args[1], env), EvalNum(t.args[2], env))
      [] t.op = "And" -> \A j \in 1..Len(t.args) : EvalBool(t.args[j], env)
      [] t.op = "Or" -> \E j \in 1..Len(t.args) : EvalBool(t.args[j], env)
      [] t.op = "Not" -> ~EvalBool(t.args[1], env)
      [] t.op = "Implies" -> EvalBool(t.args[1], env) => EvalBool(t.args[2], env)
      [] t.op = "ForAll" -> \A k \in IdxWindow : EvalBool(t.args[1], [env EXCEPT !.i = k])

\* the integer an array term holds at index k
EvalSelect(a, k, env) ==
    CASE a.op = "K" -> EvalNum(a.args[1], env).n
      [] a.op = "Store" ->
            IF EvalNum(a.args[2], env).n = k THEN EvalNum(a.args[3], env).n
            ELSE EvalSelect(a.args[1], k, env)
      [] a.op = "Const" -> IF k \in DOMAIN env.arr[a.name] THEN env.arr[a.name][k] ELSE 0
      [] a.op = "Lambda" -> EvalNum(a.args[1], [env EXCEPT !.i = k]).n

\* ---------------------------------------------------------------- encoder: the JSON expressions
\* A JSON object of the front end: its expType (or "Ctr" for a constraint),
\* its opType (the constraint's type), its bopType / symbol type (sub), its
\* operands in the order of the source's field names (kids), its number
\* (val/den, float for a Python float), its symbol name, and which optional
\* fields are present (has).
Json(expType, opType, kids) ==
    [expType |-> expType, opType |-> opType, sub |-> "", kids |-> kids,
     val |-> 0, den |-> 1, float |-> FALSE, name |-> "", has |-> {}]

NumConst(v) == [Json("Num", "Const", <<>>) EXCEPT !.val = v]

NumConstFloat(n, d) == [Json("Num", "Const", <<>>) EXCEPT !.val = n, !.den = d, !.float = TRUE]

NumSymbol(name, type) == [Json("Num", "Symbol", <<>>) EXCEPT !.name = name, !.sub = type]

NumBop(bop, left, right) == [Json("Num", "Bop", <<left, right>>) EXCEPT !.sub = bop]

NumIndex(baseShape, index) == Json("Num", "Index", <<baseShape, index>>)

NumUop(uop, baseValue) == [Json("Num", "Uop", <<baseValue>>) EXCEPT !.sub = uop]

\* values is the list of the operands
NumMax(values) == Json("Num", "Max", values)

NumMin(values) == Json("Num", "Min", values)

NumNumel(shape) == Json("Num", "Numel", <<shape>>)

ShapeConst(dims, rank) == [Json("Shape", "Const", dims) EXCEPT !.val = rank]

ShapeSymbol(name, rank) == [Json("Shape", "Symbol", <<rank>>) EXCEPT !.name = name]

ShapeSet(baseShape, axis, dim) == Json("Shape", "Set", <<baseShape, axis, dim>>)

\* start and end are read only when has names them
ShapeSlice(baseShape, has, start, end) ==
    [Json("Shape", "Slice", <<baseShape, start, end>>) EXCEPT !.has = has]

ShapeConcat(left, right) == Json("Shape", "Concat", <<left, right>>)

ShapeBroadcast(left, right) == Json("Shape", "Broadcast", <<left, right>>)

BoolConst(b) == [Json("Bool", "Const", <<>>) EXCEPT !.val = IF b THEN 1 ELSE 0]

CtrExpBool(exp) == Json("Ctr", "ExpBool", <<exp>>)

CtrEqual(left, right) == Json("Ctr", "Equal", <<left, right>>)

CtrNotEqual(left, right) == Json("Ctr", "NotEqual", <<left, right>>)

CtrAnd(left, right) == Json("Ctr", "And", <<left, right>>)

CtrBroadcastable(left, right) == Json("Ctr", "Broadcastable", <<left, right>>)

CtrFail == Json("Ctr", "Fail", <<>>)

\* ---------------------------------------------------------------- encoder: Ctr
\* What a function of the encoder does: it returns a z3 term, or it returns
\* a Python value (an int, a bool, None; kept as the z3 value it is coerced
\* to when it is used in a term, and marked py), or it raises.
Ok(t) == [raised |-> FALSE, t |-> t, py |-> FALSE]

OkPy(t) == [raised |-> FALSE, t |-> t, py |-> TRUE]

Raise == [raised |-> TRUE, t |-> NoneVal, py |-> FALSE]

\* the bound variable i = Int("i") of z3
BoundI == Z3Int("i")

InRange(lo, hi) == And(<<Rel("<=", lo, BoundI), Rel("<", BoundI, hi)>>)

RECURSIVE encodeExpNum(_)
RECURSIVE encodeExpShape(_)
RECURSIVE getRank(_)
RECURSIVE StoreDims(_, _, _)
RECURSIVE StoreDim(_, _, _, _)

\* the checks "is an int" of the encoder: a value that is not an integer raises
IntOnly(r) ==
    IF r.raised THEN Raise
    ELSE IF r.t.sort # "Int" THEN Raise
    ELSE r

\* Ctr._encodeExpNumBop on the encoded operands
encodeExpNumBop(bop, left, right) ==
    CASE bop = "Add" -> Ok(Arith("+", left, right))
      [] bop = "Sub" -> Ok(Arith("-", left, right))
      [] bop = "Mul" -> Ok(Arith("*", left, right))
      [] bop = "TrueDiv" ->
            LET l == IF left.sort = "Int" THEN ToReal(left) ELSE left
                r == IF left.sort # "Int" /\ right.sort = "Int" THEN ToReal(right) ELSE right
            IN  Ok(z3_div(l, r))
      [] bop = "FloorDiv" ->
            IF left.sort = "Real" \/ right.sort = "Real" THEN Raise
            ELSE Ok(z3_div(left, right))
      [] bop = "Mod" ->
            IF left.sort = "Real" \/ right.sort = "Real" THEN Raise
            ELSE Ok(z3_mod(left, right))

\* the Bop branch of Ctr.encodeExpNum: both operands are encoded first
encodeExpNumBopOf(bop, left, right) ==
    IF left.raised \/ right.raised THEN Raise
    ELSE encodeExpNumBop(bop, left.t, right.t)

\* the Index branch of Ctr.encodeExpNum
encodeExpNumIndex(baseShape, index) ==
    IF baseShape.raised \/ index.raised THEN Raise
    ELSE IF index.t.sort # "Int" THEN Raise
    ELSE Ok(Select(baseShape.t, index.t))

\* Ctr._encodeExpNumUop on the encoded operand; an unknown uopType falls off
\* the end of the function
encodeExpNumUop(uop, baseValue) ==
    IF baseValue.raised THEN Raise
    ELSE CASE uop = "Neg" -> Ok(Neg(baseValue.t))
           [] uop = "Floor" ->
                IF baseValue.t.sort # "Real" THEN baseValue ELSE Ok(ToInt(baseValue.t))
           [] uop = "Ceil" ->
                IF baseValue.t.sort = "Real"
                THEN Ok(If(Rel("==", ToInt(baseValue.t), baseValue.t), ToInt(baseValue.t),
                           Arith("+", ToInt(baseValue.t), IntVal(1))))
                ELSE baseValue
           [] uop = "Abs" ->
                Ok(If(Rel("<", baseValue.t, IntVal(0)), Neg(baseValue.t), baseValue.t))
           [] OTHER -> OkPy(NoneVal)

\* reduce(lambda a, b: z3_max(a, b), encodedValues), and the same with z3_min:
\* acc is the value reduced so far, k the next operand; reduce of an empty
\* list raises
RECURSIVE reduceFrom(_, _, _, _)
reduceFrom(opType, encodedValues, acc, k) ==
    IF k > Len(encodedValues) THEN acc
    ELSE IF acc.raised \/ encodedValues[k].raised THEN Raise
    ELSE reduceFrom(opType, encodedValues,
                    Ok(IF opType = "Max" THEN z3_max(acc.t, encodedValues[k].t)
                       ELSE z3_min(acc.t, encodedValues[k].t)),
                    k + 1)

encodeExpNumReduce(opType, encodedValues) ==
    IF Len(encodedValues) = 0 THEN Raise
    ELSE reduceFrom(opType, encodedValues, encodedValues[1], 2)

\* Ctr._encodeExpNumNumel: prod(baseShapeEncoded, 0, self.getRank(baseShape) - 1)
encodeExpNumNumel(baseShapeEncoded, rank) ==
    IF baseShapeEncoded.raised \/ rank.raised THEN Raise
    ELSE Ok(Prod(baseShapeEncoded.t, IntVal(0),
                 IF rank.py THEN IntVal(rank.t.n - 1) ELSE Arith("-", rank.t, IntVal(1))))

\* Ctr.encodeExpNum
encodeExpNum(expNum) ==
    IF expNum.expType # "Num" THEN Raise
    ELSE CASE expNum.opType = "Const" ->
                IF expNum.float THEN Ok(RealVal(expNum.val, expNum.den))
                ELSE Ok(IntVal(expNum.val))
           [] expNum.opType = "Symbol" ->
                IF expNum.sub = "Int" THEN Ok(Z3Int(expNum.name)) ELSE Ok(Real(expNum.name))
           [] expNum.opType = "Bop" ->
                encodeExpNumBopOf(expNum.sub, encodeExpNum(expNum.kids[1]),
                                  encodeExpNum(expNum.kids[2]))
           [] expNum.opType = "Index" ->
                encodeExpNumIndex(encodeExpShape(expNum.kids[1]),
                                  encodeExpNum(expNum.kids[2]))
           [] expNum.opType \in {"Max", "Min"} ->
                encodeExpNumReduce(expNum.opType,
                                   [k \in 1..Len(expNum.kids) |-> encodeExpNum(expNum.kids[k])])
           [] expNum.opType = "Numel" ->
                encodeExpNumNumel(encodeExpShape(expNum.kids[1]), getRank(expNum.kids[1]))
           [] expNum.opType = "Uop" ->
                encodeExpNumUop(expNum.sub, encodeExpNum(expNum.kids[1]))
           [] OTHER -> OkPy(NoneVal)

\* the Slice and Concat branches of Ctr.getRank: end - start, left + right;
\* the sum of two Python ints is a Python int
getRankArith(op, a, b) ==
    IF a.raised \/ b.raised THEN Raise
    ELSE IF op = "+" /\ a.py /\ b.py THEN OkPy(IntVal(a.t.n + b.t.n))
    ELSE Ok(Arith(op, a.t, b.t))

\* the Broadcast branch of Ctr.getRank
getRankMax(rankLeft, rankRight) ==
    IF rankLeft.raised \/ rankRight.raised THEN Raise
    ELSE Ok(z3_max(rankLeft.t, rankRight.t))

\* Ctr.getRank; the rank of a Const is the Python int of the document
getRank(expShape) ==
    IF expShape.expType # "Shape" THEN Raise
    ELSE CASE expShape.opType = "Const" -> OkPy(IntVal(expShape.val))
           [] expShape.opType = "Symbol" ->
                IntOnly(encodeExpNum(expShape.kids[1]))
           [] expShape.opType = "Set" -> getRank(expShape.kids[1])
           [] expShape.opType = "Slice" ->
                IF "end" \in expShape.has
                THEN getRankArith("-", encodeExpNum(expShape.kids[3]),
                                  IF "start" \in expShape.has
                                  THEN encodeExpNum(expShape.kids[2])
                                  ELSE Ok(IntVal(0)))
                \* getRank is handed the encoded base, a z3 array: reading
                \* its "expType" raises
                ELSE Raise
           [] expShape.opType = "Concat" ->
                getRankArith("+", getRank(expShape.kids[1]), getRank(expShape.kids[2]))
           [] expShape.opType = "Broadcast" ->
                getRankMax(getRank(expShape.kids[1]), getRank(expShape.kids[2]))

\* the loop of encodeExpShape on a Const: dims[k..] stored onto shape
StoreDims(dims, k, shape) ==
    IF k > Len(dims) THEN Ok(shape)
    ELSE StoreDim(dims, k, shape, encodeExpNum(dims[k]))

\* one round of that loop: the encoded dimension dim is stored at k - 1
StoreDim(dims, k, shape, dim) ==
    IF dim.raised THEN Raise
    ELSE IF dim.t.sort # "Int" THEN Raise
    ELSE StoreDims(dims, k + 1, Store(shape, IntVal(k - 1), dim.t))

\* Ctr._encodeExpShapeSet
encodeExpShapeSet(baseShape, axis, dim) ==
    IF baseShape.raised \/ axis.raised THEN Raise
    ELSE IF axis.t.sort # "Int" THEN Raise
    ELSE IF dim.raised THEN Raise
    ELSE IF dim.t.sort # "Int" THEN Raise
    ELSE Ok(Store(baseShape.t, axis.t, dim.t))

\* Ctr._encodeExpShapeSlice; end is the rank of the base when absent, and
\* z3's is_int is false of a Python int
encodeExpShapeSlice(dims, start, end) ==
    IF dims.raised \/ start.raised THEN Raise
    ELSE IF start.t.sort # "Int" THEN Raise
    ELSE IF end.raised THEN Raise
    ELSE IF end.py \/ end.t.sort # "Int" THEN Raise
    ELSE Ok(Lambda(If(InRange(IntVal(0), Arith("-", end.t, start.t)),
                      Select(dims.t, Arith("+", start.t, BoundI)),
                      IntVal(-1))))

\* _encodeExpShapeConcat reading the right operand at i instead of i - rankLeft
encodeExpShapeConcat_NoOffset(left, rankLeft, right, rankRight) ==
    IF left.raised \/ rankLeft.raised \/ right.raised \/ rankRight.raised THEN Raise
    ELSE Ok(Lambda(
            If(InRange(IntVal(0), rankLeft.t),
               Select(left.t, BoundI),
               If(InRange(rankLeft.t, Arith("+", rankLeft.t, rankRight.t)),
                  Select(right.t, BoundI),
                  IntVal(-1)))))

\* Ctr._encodeExpShapeConcat
encodeExpShapeConcat(left, rankLeft, right, rankRight) ==
    IF left.raised \/ rankLeft.raised \/ right.raised \/ rankRight.raised THEN Raise
    ELSE Ok(Lambda(
            If(InRange(IntVal(0), rankLeft.t),
               Select(left.t, BoundI),
               If(InRange(rankLeft.t, Arith("+", rankLeft.t, rankRight.t)),
                  Select(right.t, Arith("-", BoundI, rankLeft.t)),
                  IntVal(-1)))))

\* one side of Ctr._encodeExpShapeBc: the longer shape l over the shorter r
BcLonger(l, rl, r, rr) ==
    If(InRange(IntVal(0), Arith("-", rl, rr)),
       Select(l, BoundI),
       If(InRange(Arith("-", rl, rr), rl),
          z3_max(Select(l, BoundI), Select(r, Arith("-", BoundI, Arith("-", rl, rr)))),
          IntVal(-1)))

\* Ctr._encodeExpShapeBc
encodeExpShapeBc(left, rankLeft, right, rankRight) ==
    IF left.raised \/ rankLeft.raised \/ right.raised \/ rankRight.raised THEN Raise
    ELSE Ok(Lambda(
            If(Rel(">=", rankLeft.t, rankRight.t),
               BcLonger(left.t, rankLeft.t, right.t, rankRight.t),
               BcLonger(right.t, rankRight.t, left.t, rankLeft.t))))

\* mutant: the array symbol is not masked by the rank
encodeExpShapeSymbol_NoMask(name, rank) ==
    IF rank.raised THEN Raise
    ELSE IF rank.t.sort # "Int" THEN Raise
    ELSE Ok(Array(name))

\* the Symbol branch of Ctr.encodeExpShape
encodeExpShapeSymbol(name, rank) ==
    IF rank.raised THEN Raise
    ELSE IF rank.t.sort # "Int" THEN Raise
    ELSE Ok(Lambda(If(InRange(IntVal(0), rank.t),
                      Select(Array(name), BoundI),
                      IntVal(-1))))

\* Ctr.encodeExpShape
encodeExpShape(expShape) ==
    IF expShape.expType # "Shape" THEN Raise
    ELSE CASE expShape.opType = "Const" -> StoreDims(expShape.kids, 1, K(IntVal(-1)))
           [] expShape.opType = "Symbol" ->
                encodeExpShapeSymbol(expShape.name, encodeExpNum(expShape.kids[1]))
           [] expShape.opType = "Set" ->
                encodeExpShapeSet(encodeExpShape(expShape.kids[1]),
                                  encodeExpNum(expShape.kids[2]),
                                  encodeExpNum(expShape.kids[3]))
           [] expShape.opType = "Slice" ->
                encodeExpShapeSlice(encodeExpShape(expShape.kids[1]),
                                    IF "start" \in expShape.has
                                    THEN encodeExpNum(expShape.kids[2]) ELSE Ok(IntVal(0)),
                                    IF "end" \in expShape.has
                                    THEN encodeExpNum(expShape.kids[3])
                                    ELSE getRank(expShape.kids[1]))
           [] expShape.opType = "Concat" ->
                encodeExpShapeConcat(encodeExpShape(expShape.kids[1]), getRank(expShape.kids[1]),
                                     encodeExpShape(expShape.kids[2]), getRank(expShape.kids[2]))
           [] expShape.opType = "Broadcast" ->
                encodeExpShapeBc(encodeExpShape(expShape.kids[1]), getRank(expShape.kids[1]),
                                 encodeExpShape(expShape.kids[2]), getRank(expShape.kids[2]))

\* Ctr.encodeExpBool, for the op type Const: the Python bool of the document
encodeExpBool(expBool) ==
    IF expBool.expType # "Bool" THEN Raise
    ELSE OkPy(BoolVal(expBool.val = 1))

\* the comparison l op r of two encoded operands
encodeRel(op, l, r) ==
    IF l.raised \/ r.raised THEN Raise ELSE Ok(Rel(op, l.t, r.t))

\* Ctr._encodeEq
encodeEq(ctr) ==
    IF ctr.kids[1].expType = "Num" /\ ctr.kids[2].expType = "Num"
    THEN encodeRel("==", encodeExpNum(ctr.kids[1]), encodeExpNum(ctr.kids[2]))
    ELSE IF ctr.kids[1].expType = "Shape" /\ ctr.kids[2].expType = "Shape"
    THEN encodeRel("==", encodeExpShape(ctr.kids[1]), encodeExpShape(ctr.kids[2]))
    ELSE Raise

\* Ctr._encodeNe: no else branch, the function returns None
encodeNe(ctr) ==
    IF ctr.kids[1].expType = "Num" /\ ctr.kids[2].expType = "Num"
    THEN encodeRel("!=", encodeExpNum(ctr.kids[1]), encodeExpNum(ctr.kids[2]))
    ELSE IF ctr.kids[1].expType = "Shape" /\ ctr.kids[2].expType = "Shape"
    THEN encodeRel("!=", encodeExpShape(ctr.kids[1]), encodeExpShape(ctr.kids[2]))
    ELSE OkPy(NoneVal)

\* one disjunct of Ctr._encodeBc: l is the shape of rank rl, not shorter
BcAligned(l, rl, r, rr) ==
    ForAll(Implies(InRange(Arith("-", rl, rr), rl),
                   Or(<<Rel("==", Select(l, BoundI),
                                  Select(r, Arith("-", BoundI, Arith("-", rl, rr)))),
                        Rel("==", Select(l, BoundI), IntVal(1)),
                        Rel("==", Select(r, Arith("-", BoundI, Arith("-", rl, rr))),
                                  IntVal(1))>>)))

\* mutant: only the rank ordering left >= right is encoded
encodeBcOf_LeftLongerOnly(left, right, rankLeft, rankRight) ==
    IF left.raised \/ right.raised \/ rankLeft.raised \/ rankRight.raised THEN Raise
    ELSE Ok(And(<<Rel(">=", rankLeft.t, rankRight.t),
                  BcAligned(left.t, rankLeft.t, right.t, rankRight.t)>>))

encodeBc_LeftLongerOnly(ctr) ==
    encodeBcOf_LeftLongerOnly(encodeExpShape(ctr.kids[1]), encodeExpShape(ctr.kids[2]),
                              getRank(ctr.kids[1]), getRank(ctr.kids[2]))

\* the formula of Ctr._encodeBc over the encoded shapes and ranks
encodeBcOf(left, right, rankLeft, rankRight) ==
    IF left.raised \/ right.raised \/ rankLeft.raised \/ rankRight.raised THEN Raise
    ELSE Ok(Or(<<And(<<Rel(">=", rankLeft.t, rankRight.t),
                       BcAligned(left.t, rankLeft.t, right.t, rankRight.t)>>),
                 And(<<Rel("<", rankLeft.t, rankRight.t),
                       BcAligned(right.t, rankRight.t, left.t, rankLeft.t)>>)>>))

\* Ctr._encodeBc
encodeBc(ctr) ==
    encodeBcOf(encodeExpShape(ctr.kids[1]), encodeExpShape(ctr.kids[2]),
               getRank(ctr.kids[1]), getRank(ctr.kids[2]))

\* Ctr._encodeAnd; z3's And raises on an operand that is None
encodeAnd(left, right) ==
    IF left.raised \/ right.raised THEN Raise
    ELSE IF left.t.op = "None" \/ right.t.op = "None" THEN Raise
    ELSE Ok(And(<<left.t, right.t>>))

RECURSIVE encode(_)
\* Ctr.encode, for the constraint types ExpBool, Equal, NotEqual, And,
\* Broadcastable and Fail
encode(ctr) ==
    CASE ctr.opType = "ExpBool" -> encodeExpBool(ctr.kids[1])
      [] ctr.opType = "Equal" -> encodeEq(ctr)
      [] ctr.opType = "NotEqual" -> encodeNe(ctr)
      [] ctr.opType = "And" -> encodeAnd(encode(ctr.kids[1]), encode(ctr.kids[2]))
      [] ctr.opType = "Broadcastable" -> encodeBc(ctr)
      [] ctr.opType = "Fail" -> OkPy(BoolVal(FALSE))

\* ---------------------------------------------------------------- encoder: inputs
\* interpretations: the integer symbol z, the array symbol X
Env(z, x) == [num |-> [z |-> z], arr |-> [X |-> x], i |-> 0]

DefaultEnv == Env(0, [k \in 0..(MaxRank - 1) |-> -1])

\* the interpretation the solver's world w stands for
WorldEnv(w) == Env(w - 1, [k \in 0..(MaxRank - 1) |-> -1])

\* interpretations of X: each entry a dimension, or the -1 of an unset entry
XEnvs == {Env(0, x) : x \in [0..(MaxRank - 1) -> {-1, 1, MaxDim}]}

SymZ == NumSymbol("z", "Int")

NumLeaves == {NumConst(v) : v \in (-MaxDim)..MaxDim} \cup {NumConstFloat(1, 2), SymZ}

Bops == {"Add", "Sub", "Mul", "TrueDiv", "FloorDiv", "Mod"}

NumExprs == {NumBop(bop, a, b) : bop \in Bops, a \in NumLeaves, b \in NumLeaves}

\* the symbol types of the front end, and the unary operators
SymbolKinds == {"Int", "Float", "String", "Bool", "Shape"}

Uops == {"Neg", "Floor", "Ceil", "Abs"}

\* numbers of either Python type and a symbol of every type
SortLeaves ==
    {NumConst(1), NumConst(-2), NumConstFloat(1, 2), NumConstFloat(-3, 2)}
        \cup {NumSymbol("z", kind) : kind \in SymbolKinds}

SortBops ==
    {NumBop(bop, a, b) : bop \in Bops, a, b \in {NumConst(2), NumConstFloat(1, 2), SymZ}}

\* shapes read by Index and Numel
SortShapes ==
    {ShapeConst(<<>>, 0), ShapeConst(<<NumConst(2)>>, 1),
     ShapeConst(<<NumConst(2), NumConst(MaxDim)>>, 2), ShapeSymbol("X", NumConst(MaxRank))}

SortReads ==
    {NumIndex(s, i) : s \in SortShapes, i \in {NumConst(0), NumConst(1), SymZ, NumConstFloat(1, 2)}}
        \cup {NumNumel(s) : s \in SortShapes}

\* every operator of a Num expression over the leaves, the unary operators
\* and Min and Max also over operators
SortExprs ==
    SortLeaves \cup SortReads
        \cup {NumUop(uop, e) : uop \in Uops, e \in SortLeaves \cup SortBops \cup SortReads}
        \cup {NumBop(bop, NumUop(uop, a), b) :
                bop \in {"Add", "TrueDiv", "Mod"}, uop \in Uops,
                a \in {NumConstFloat(1, 2), SymZ}, b \in {NumConst(2), NumConstFloat(1, 2)}}
        \cup {NumMax(<<>>), NumMin(<<>>)}
        \cup {NumMax(<<a>>) : a \in SortLeaves} \cup {NumMin(<<a>>) : a \in SortLeaves}
        \cup {NumMax(<<a, b>>) : a \in SortLeaves, b \in SortLeaves}
        \cup {NumMin(<<a, b>>) : a \in SortLeaves, b \in SortLeaves}
        \cup {NumMax(<<NumUop("Floor", a), b>>) : a \in SortLeaves, b \in SortLeaves}

\* the dimensions of the constant shapes: 1, which broadcasts, and two others
Dims == {1, 2, MaxDim}

\* constant shapes: every list of at most MaxRank dimensions, with its length
ConstShapes ==
    UNION {{ShapeConst([k \in 1..n |-> NumConst(dims[k])], n) : dims \in [1..n -> Dims]}
           : n \in 0..MaxRank}

SymShapes == {ShapeSymbol("X", NumConst(r)) : r \in 0..MaxRank}

SetShapes ==
    {ShapeSet(b, NumConst(axis), NumConst(MaxDim)) : b \in ConstShapes, axis \in (-1)..MaxRank}

SliceShapes ==
    {ShapeSlice(b, has, NumConst(start), NumConst(end)) :
        b \in ConstShapes, has \in SUBSET {"start", "end"},
        start \in 0..1, end \in 0..(MaxRank + 1)}

PairShapes ==
    {ShapeConcat(a, b) : a \in ConstShapes, b \in ConstShapes}
        \cup {ShapeBroadcast(a, b) : a \in ConstShapes, b \in ConstShapes}

\* a Concat one of whose operands is the symbol X
SymConcats ==
    {ShapeConcat(x, ShapeConst(<<NumConst(2)>>, 1)) : x \in SymShapes}
        \cup {ShapeConcat(ShapeConst(<<NumConst(2)>>, 1), x) : x \in SymShapes}

\* a Concat one of whose operands is a Slice
NestedShapes ==
    {ShapeConcat(a, ShapeConst(<<NumConst(MaxDim)>>, 1)) : a \in SliceShapes}
        \cup {ShapeConcat(ShapeConst(<<NumConst(MaxDim)>>, 1), a) : a \in SliceShapes}

ClosedShapes == ConstShapes \cup SetShapes \cup SliceShapes \cup PairShapes \cup NestedShapes

\* the constraints given to Ctr: equalities and disequalities of two shapes,
\* of two numbers, of operands of different or unsupported expression types,
\* and broadcastability of two constant shapes
MixedOperands == {NumConst(1), ShapeConst(<<>>, 0), BoolConst(TRUE)}

NumCtrs ==
    {CtrEqual(NumConst(1), e) : e \in NumExprs} \cup {CtrNotEqual(NumConst(1), e) : e \in NumExprs}

MixedCtrs ==
    {CtrEqual(a, b) : a \in MixedOperands, b \in MixedOperands}
        \cup {CtrNotEqual(a, b) : a \in MixedOperands, b \in MixedOperands}
        \cup {CtrAnd(CtrNotEqual(a, b), CtrFail) : a \in MixedOperands, b \in MixedOperands}

ShapeEqCtrs ==
    {CtrEqual(l, r) : l \in ConstShapes \cup SetShapes
                              \cup {sl \in SliceShapes : sl.has = {"start", "end"}},
                      r \in ConstShapes}
        \cup {CtrNotEqual(l, r) : l \in ConstShapes, r \in ConstShapes}

SymShapeEqCtrs == {CtrEqual(l, r) : l \in SymShapes, r \in ConstShapes}

BcCtrs == {CtrBroadcastable(a, b) : a \in ConstShapes, b \in ConstShapes}

\* the constraints of the documents given to CtrSet: 1 = 1 / z, z = 0, true
PoolCtrs ==
    {CtrEqual(NumConst(1), NumBop("TrueDiv", NumConst(1), SymZ)),
     CtrEqual(SymZ, NumConst(0)),
     CtrExpBool(BoolConst(TRUE))}

\* the document of scenario S6: hard 1 = 1 / z, path z = 0, soft true
S6Doc ==
    [ctrPool |-> <<CtrEqual(NumConst(1), NumBop("TrueDiv", NumConst(1), SymZ)),
                   CtrEqual(SymZ, NumConst(0)),
                   CtrExpBool(BoolConst(TRUE))>>,
     hardCtr |-> <<0>>, softCtr |-> <<2>>, pathCtr |-> <<1>>]

\* an index list of the document: empty, or one integer around the pool's range
IndexLists(n) == {<<>>} \cup {<<i>> : i \in (-(n + 1))..n}

Call(fn, arg, env) == [fn |-> fn, arg |-> arg, env |-> env, state |-> "call", out |-> Raise]

\* ---------------------------------------------------------------- encoder: CtrSet from a document
\* Python's list[i]: defined for -len <= i < len
PyIndexable(l, i) == -Len(l) <= i /\ i < Len(l)

\* the encoded constraint as the solver model knows it: the worlds whose
\* interpretation satisfies it
AtomOf(t) == Atom({w \in Worlds : EvalBool(t, WorldEnv(w))})

\* the list comprehensions of CtrSet.__init__ over the encoded pool: the
\* hard, path and soft indices are looked up in this order
CtrSetLists(j, ctrPool, idxs) ==
    IF \E k \in 1..Len(ctrPool) : ctrPool[k].raised
    THEN [raised |-> TRUE, error |-> "Exception", cs |-> NoCtrSet]
    ELSE IF \E k \in 1..Len(idxs) : ~PyIndexable(ctrPool, idxs[k])
    THEN [raised |-> TRUE, error |-> "IndexError", cs |-> NoCtrSet]
    ELSE [raised |-> FALSE, error |-> "",
          cs |-> CtrSetOf([k \in 1..Len(ctrPool) |-> AtomOf(ctrPool[k].t)],
                          j.hardCtr, j.softCtr, j.pathCtr)]

\* CtrSet.__init__ on a document of JSON constraints: Ctr(c) for every pool
\* entry, then the three list comprehensions
CtrSetInit(j) ==
    CtrSetLists(j, [k \in 1..Len(j.ctrPool) |-> encode(j.ctrPool[k])],
                j.hardCtr \o j.pathCtr \o j.softCtr)

\* ---------------------------------------------------------------- SpecEncode
InitEncode ==
    /\ ctrSet = NoCtrSet
    /\ run = NewRun
    /\ prior = <<>>
    /\ DriverIdle
    /\ \/ \E e \in NumExprs : \E w \in Worlds : enc = Call("encodeExpNum", e, WorldEnv(w))
       \/ \E e \in SortExprs : enc = Call("encodeExpNum", e, DefaultEnv)
       \/ \E s \in ClosedShapes \cup SymShapes : enc = Call("getRank", s, DefaultEnv)
       \/ \E s \in ClosedShapes : enc = Call("encodeExpShape", s, DefaultEnv)
       \/ \E s \in SymShapes \cup SymConcats :
            \E env \in XEnvs : enc = Call("encodeExpShape", s, env)
       \/ \E c \in NumCtrs : \E w \in Worlds : enc = Call("Ctr", c, WorldEnv(w))
       \/ \E c \in MixedCtrs \cup ShapeEqCtrs \cup BcCtrs : enc = Call("Ctr", c, DefaultEnv)
       \/ \E c \in SymShapeEqCtrs : \E env \in XEnvs : enc = Call("Ctr", c, env)
       \/ \E n \in 0..(MaxPool - 1) :
            \E pool \in [1..n -> PoolCtrs] :
              \E hard \in IndexLists(n) : \E path \in IndexLists(n) : \E soft \in IndexLists(n) :
                enc = Call("CtrSet",
                           [ctrPool |-> pool, hardCtr |-> hard, softCtr |-> soft, pathCtr |-> path],
                           DefaultEnv)
       \/ enc = Call("CtrSet", S6Doc, DefaultEnv)

EncodeExpNum ==
    /\ enc.fn = "encodeExpNum" /\ enc.state = "call"
    /\ enc' = [enc EXCEPT !.state = "returned", !.out = encodeExpNum(enc.arg)]
    /\ UNCHANGED <<classifierVars, driverVars>>

GetRank ==
    /\ enc.fn = "getRank" /\ enc.state = "call"
    /\ enc' = [enc EXCEPT !.state = "returned", !.out = getRank(enc.arg)]
    /\ UNCHANGED <<classifierVars, driverVars>>

EncodeExpShape ==
    /\ enc.fn = "encodeExpShape" /\ enc.state = "call"
    /\ enc' = [enc EXCEPT !.state = "returned", !.out = encodeExpShape(enc.arg)]
    /\ UNCHANGED <<classifierVars, driverVars>>

\* Ctr.__init__: self.formula = self.encode(jsonCtr)
NewCtr ==
    /\ enc.fn = "Ctr" /\ enc.state = "call"
    /\ enc' = [enc EXCEPT !.state = "returned", !.out = encode(enc.arg)]
    /\ UNCHANGED <<classifierVars, driverVars>>

\* CtrSet(jsonCtrSet)
NewCtrSet ==
    /\ enc.fn = "CtrSet" /\ enc.state = "call"
    /\ \E c \in {CtrSetInit(enc.arg)} :
          /\ enc' = [enc EXCEPT !.state = "returned",
                                !.out = [raised |-> c.raised, error |-> c.error]]
          /\ ctrSet' = c.cs
    /\ UNCHANGED <<run, prior, driverVars>>

\* analysis on the constructed CtrSet, one solver call at a time
AnalyseBuilt ==
    /\ enc.fn = "CtrSet" /\ enc.state = "returned" /\ ~enc.out.raised
    /\ run.pc # "done"
    /\ \E ans \in CheckAnswers(PendingQuery(ctrSet, run)) :
          run' = analysis(ctrSet, run, ans)
    /\ UNCHANGED <<ctrSet, prior, driverVars, encoderVars>>

NextEncode ==
    \/ EncodeExpNum
    \/ GetRank
    \/ EncodeExpShape
    \/ NewCtr
    \/ NewCtrSet
    \/ AnalyseBuilt

SpecEncode == InitEncode /\ [][NextEncode]_vars

\* ---------------------------------------------------------------- notions the claims use
Done == run.pc = "done"

Ret == run.ret[1]

Extra(key) == (CHOOSE e \in Ret.extras : e.key = key).val

\* worlds in which every pool entry with an index in the set I holds
PoolWorlds(cs, I) == {w \in Worlds : \A i \in I : w \in Models(ListGet(cs.ctrPool, i))}

Indices(idxs) == {idxs[k] : k \in 1..Len(idxs)}

\* worlds of the conjunction of the hard and the path constraints
PremiseWorlds(cs) == PoolWorlds(cs, Indices(cs.hardIdx) \cup Indices(cs.pathIdx))

\* the first k soft entries of the list hold throughout the set of worlds W
SoftHold(cs, W, k) == \A j \in 1..k : \A w \in W : w \in Models(ListGet(cs.ctrPool, cs.softIdx[j]))

\* positions k of the soft list whose entry is not entailed by the worlds
\* Ctx(k) together with the soft entries before it
Offenders(cs, Ctx(_)) ==
    {k \in 1..Len(cs.softIdx) :
        \E w \in PoolWorlds(cs, {cs.softIdx[j] : j \in 1..(k - 1)}) \cap Ctx(k) :
            w \notin Models(ListGet(cs.ctrPool, cs.softIdx[k]))}

Least(S) == CHOOSE k \in S : \A j \in S : k <= j

IsAscending(idxs) == \A i, j \in 1..Len(idxs) : i < j => idxs[i] < idxs[j]

\* the non-soft pool entries positioned before the k-th soft entry
Preceding(cs, k) == {i \in 0..(cs.softIdx[k] - 1) : i \notin Indices(cs.softIdx)}

\* every pool entry is in one of the three lists and the soft list ascends
Partitioned(cs) ==
    /\ IsAscending(cs.softIdx)
    /\ Indices(cs.hardIdx) \cup Indices(cs.pathIdx) \cup Indices(cs.softIdx)
          = 0..(Len(cs.ctrPool) - 1)

AllDecided == \A q \in 1..Len(run.queries) : run.queries[q].answer \in {"sat", "unsat"}

SomeUnknown(stage) ==
    \E q \in 1..Len(run.queries) :
        run.queries[q].stage = stage /\ run.queries[q].answer = "unknown"

PrefixListed(cs) ==
    \A k \in 1..Len(cs.softIdx) :
        Preceding(cs, k) \subseteq Indices(cs.hardIdx) \cup Indices(cs.pathIdx)

C3_UnreachableIffPremiseUnsat ==
    Done =>
        /\ Len(run.queries) >= 1
        /\ run.queries[1].stage = "pathCondCheck"
        /\ ModelsOfAll(run.queries[1].asserted) = PremiseWorlds(ctrSet)
        /\ (Ret.type = Unreachable <=> run.queries[1].answer = "unsat")
        /\ (Ret.type = Unreachable => Len(run.queries) = 1)

\* C3 witness: an Unreachable path with hard, path and soft constraints
C3_Witness ==
    /\ Done /\ Ret.type = Unreachable
    /\ Len(ctrSet.softIdx) > 0
    /\ Len(ctrSet.hardIdx) > 0 /\ Len(ctrSet.pathIdx) > 0

\* C4 (as stated): after an unknown answer to any staged query the path is
\* classified Undecidable.
C4_AsStated ==
    (Done /\ ~AllDecided) => Ret.type = DontKnow

\* C4 (amended): an unknown answer to a localized soft query classifies the
\* path Undecidable with undecide = that candidate; an unknown answer to the
\* reachability or validity query is taken as "not unsat" and the analysis
\* goes on, so the path is never Unreachable after an unknown answer.
C4_UnknownInSoftCheck ==
    Done =>
        /\ SomeUnknown("checkSat") =>
              /\ Ret.type = DontKnow
              /\ Ret.extras = {Entry("undecide", PyInt(run.queries[Len(run.queries)].idx))}
              /\ run.queries[Len(run.queries)].answer = "unknown"
        /\ Ret.type = DontKnow => SomeUnknown("checkSat")
        /\ Ret.type = Unreachable => AllDecided
        /\ SomeUnknown("pathCondCheck") => Len(run.queries) >= 2
        /\ (SomeUnknown("checkValidity") /\ Len(ctrSet.softIdx) > 0) => Len(run.queries) >= 3

\* C4 witness: Undecidable at the second soft entry after two unknown answers
\* of the earlier stages
C4_Witness ==
    /\ Done /\ Ret.type = DontKnow
    /\ SomeUnknown("pathCondCheck") /\ SomeUnknown("checkValidity")
    /\ Len(ctrSet.softIdx) >= 2
    /\ Extra("undecide") = PyInt(ctrSet.softIdx[2])

\* C10 (as stated): an Unreachable report has neither a conflict nor an
\* undecide entry.
C10_AsStated ==
    (Done /\ Ret.type = Unreachable) =>
        "conflict" \notin Keys(Ret.extras) /\ "undecide" \notin Keys(Ret.extras)

\* C10 (amended): an Unreachable report has exactly one extras entry,
\* conflict, holding the list of the pool indices found for the unsat core,
\* and no undecide entry.
C10_UnreachableExtras ==
    (Done /\ Ret.type = Unreachable) =>
        /\ Keys(Ret.extras) = {"conflict"}
        /\ Cardinality(Ret.extras) = 1
        /\ Extra("conflict").tag = "list"
        /\ \A k \in 1..Len(Extra("conflict").l) :
              Extra("conflict").l[k] \in 0..(Len(ctrSet.ctrPool) - 1)

\* C10 witness: an Unreachable path
C10_Witness ==
    /\ Done /\ Ret.type = Unreachable
    /\ Len(ctrSet.ctrPool) = MaxPool

\* ---------------------------------------------------------------- claims on the drivers
RECURSIVE Outcomes(_, _)
\* the reports analysis can return for cs when it runs alone
Outcomes(cs, r) ==
    IF r.pc = "done"
    THEN {[type |-> r.ret[1].type, extras |-> r.ret[1].extras]}
    ELSE UNION {Outcomes(cs, analysis(cs, r, ans)) : ans \in CheckAnswers(PendingQuery(cs, r))}

BucketNames == {"UnreachablePaths", "ValidPaths", "SatPaths", "UnsatPaths", "DontknowPaths"}

\* how often path index p (0-based) is filed in the bucket
TimesIn(name, p) == Cardinality({j \in 1..Len(buckets[name]) : buckets[name][j] = p})

BucketFor(type) ==
    CASE type = Valid -> "ValidPaths"
      [] type = Unsat -> "UnsatPaths"
      [] type = Unreachable -> "UnreachablePaths"
      [] type = DontKnow -> "DontknowPaths"

Logged(kind, k) == \E j \in 1..Len(console) : console[j] = [kind |-> kind, path |-> k]

\* the paths the driver has dealt with
Reported == 1..Len(order)

C6_TimeoutIsolation ==
    \A k \in Reported \ timedOut :
        LET alone == Outcomes(CtrSetNew(doc[k]), NewRun)
        IN  /\ entry = "PyTeaServer" => result[k] \in alone
            /\ entry = "Z3Encoder" =>
                  \E o \in alone : TimesIn(BucketFor(o.type), k - 1) = 1

\* C7: at most one path's analysis is executing.
C7_OneAnalysisAtATime == Cardinality(Running) <= 1

\* C8: when a path has an entry that does not encode (and nothing else goes
\* wrong), the driver still ends normally with a report for every path, the
\* failing path's report being Undecidable.
C8_EncoderFailureIsPerPath ==
    LET bad == {k \in 1..Len(doc) : CtrSetRaises(doc[k])}
    IN  (bad # {} /\ timedOut = {} /\ exc # "Z3Exception" /\ dpc \in {"done", "raised"}) =>
            /\ dpc = "done"
            /\ Reported = 1..Len(doc)
            /\ \A k \in bad :
                  /\ entry = "PyTeaServer" => result[k].type = DontKnow
                  /\ entry = "Z3Encoder" => TimesIn("DontknowPaths", k - 1) = 1

\* C9: paths are dealt with in document order, one report each: the k-th
\* report made is that of the k-th path (its own analysis' value, or its own
\* timeout), and a driver that returns has reported every path.
C9_DocumentOrder ==
    /\ order = [k \in 1..Len(order) |-> k]
    /\ Len(order) <= Len(doc)
    /\ dpc = "done" => Len(order) = Len(doc)
    /\ entry = "PyTeaServer" =>
          /\ Len(result) = Len(order)
          /\ \A k \in Reported :
                result[k] = IF k \in timedOut THEN [type |-> Timeout, extras |-> {}]
                            ELSE [type |-> workers[k].run.ret[1].type,
                                  extras |-> workers[k].run.ret[1].extras]
    /\ entry = "Z3Encoder" =>
          /\ \A name \in BucketNames : \A j \in 1..Len(buckets[name]) :
                buckets[name][j] + 1 \in Reported
          /\ \A k \in Reported :
                \A name \in BucketNames :
                    TimesIn(name, k - 1) =
                        IF name = (IF k \in timedOut THEN "DontknowPaths"
                                   ELSE BucketFor(workers[k].run.ret[1].type))
                        THEN 1 ELSE 0

\* C9 witness: a driver has returned on two paths, the first timed out and
\* the second did not
C9_Witness ==
    /\ dpc = "done" /\ Len(doc) >= 2
    /\ 1 \in timedOut /\ 2 \notin timedOut

\* ---------------------------------------------------------------- claims on the unsat core
\* C11: when a path is classified Unreachable, the reported indices are a
\* non-empty set of hard and path constraints whose conjunction is
\* unsatisfiable.
C11_CoreIdentifiesConflict ==
    (Done /\ Ret.type = Unreachable) =>
        LET idx == Extra("conflict").l
        IN  /\ idx # <<>>
            /\ Indices(idx) \subseteq Indices(ctrSet.hardIdx) \cup Indices(ctrSet.pathIdx)
            /\ PoolWorlds(ctrSet, Indices(idx)) = {}

DocIndices(j) == j.hardCtr \o j.pathCtr \o j.softCtr

\* some index of the document lies outside [0, |ctrPool|)
OutsidePool(j) ==
    \E k \in 1..Len(DocIndices(j)) :
        DocIndices(j)[k] < 0 \/ DocIndices(j)[k] >= Len(j.ctrPool)

\* C13: constructing a constraint set fails whenever an index of hardCtr,
\* pathCtr or softCtr lies outside [0, |ctrPool|), negative indices
\* included, and no such constraint set is analysed.
C13_IndexOutsidePoolFails ==
    (enc.fn = "CtrSet" /\ enc.state = "returned" /\ OutsidePool(enc.arg)) =>
        /\ enc.out.raised
        /\ run = NewRun

\* the operands of a comparison are both numbers or both shapes
SameSort(ctr) ==
    \/ ctr.kids[1].expType = "Num" /\ ctr.kids[2].expType = "Num"
    \/ ctr.kids[1].expType = "Shape" /\ ctr.kids[2].expType = "Shape"

\* C14: encoding Eq(l, r) or Ne(l, r) whose operands are not both Num or
\* both Shape ends in an error; no result, empty or not, is returned.
C14_MixedComparisonFails ==
    (/\ enc.fn = "Ctr" /\ enc.state = "returned"
     /\ enc.arg.opType \in {"Equal", "NotEqual"}
     /\ ~SameSort(enc.arg)) => enc.out.raised

\* the value of an operand of the inputs: a constant or the symbol z
NumValue(e, env) ==
    IF e.opType = "Const" THEN Rat(e.val, e.den) ELSE Rat(env.num[e.name], 1)

\* Python's a // b and a % b on integers, b # 0
PyFloorDiv(a, b) == IF b > 0 THEN FloorOf(a, b) ELSE FloorOf(-a, -b)

PyMod(a, b) == a - b * PyFloorDiv(a, b)

\* the result of a divide-class operator: -1 on a zero divisor
DivideResult(bop, a, b) ==
    IF b.n = 0 THEN Rat(-1, 1)
    ELSE CASE bop = "TrueDiv" -> RatDiv(a, b)
           [] bop = "FloorDiv" -> Rat(PyFloorDiv(a.n, b.n), 1)
           [] bop = "Mod" -> Rat(PyMod(a.n, b.n), 1)

\* the encoding of a divide-class operator evaluates to the operator's result
DivideClassEncoded ==
    (/\ enc.fn = "encodeExpNum" /\ enc.state = "returned" /\ ~enc.out.raised
     /\ enc.arg.sub \in {"TrueDiv", "FloorDiv", "Mod"}) =>
        EvalNum(enc.out.t, enc.env) =
            DivideResult(enc.arg.sub, NumValue(enc.arg.kids[1], enc.env),
                         NumValue(enc.arg.kids[2], enc.env))

\* scenario S6, its first solver call decided, is classified Unreachable
S6Unreachable ==
    (/\ enc.fn = "CtrSet" /\ enc.arg = S6Doc /\ Done
     /\ run.queries[1].answer # "unknown") => Ret.type = Unreachable

\* C15: the encodings of TrueDiv(a, b), FloorDiv(a, b) and Mod(a, b)
\* evaluate to the operator's result when b is not 0 and to -1 when b is 0;
\* hence hard 1 = TrueDiv(1, z) with path z = 0 is Unreachable.
C15_DivideClassResult == DivideClassEncoded /\ S6Unreachable

\* the integer an operand of the inputs stands for
IntValue(e, env) == NumValue(e, env).n

RECURSIVE RankOf(_, _)
\* the logical rank of a shape expression, as the contract defines it
RankOf(s, env) ==
    CASE s.opType = "Const" -> s.val
      [] s.opType = "Symbol" -> IntValue(s.kids[1], env)
      [] s.opType = "Set" -> RankOf(s.kids[1], env)
      [] s.opType = "Slice" ->
            (IF "end" \in s.has THEN IntValue(s.kids[3], env) ELSE RankOf(s.kids[1], env))
                - (IF "start" \in s.has THEN IntValue(s.kids[2], env) ELSE 0)
      [] s.opType = "Concat" -> RankOf(s.kids[1], env) + RankOf(s.kids[2], env)
      [] s.opType = "Broadcast" ->
            IF RankOf(s.kids[1], env) < RankOf(s.kids[2], env)
            THEN RankOf(s.kids[2], env) ELSE RankOf(s.kids[1], env)

\* two encoded shapes hold the same integer at every index
ArraysAgree(l, r, env) ==
    \A k \in IdxWindow : EvalSelect(l.t, k, env) = EvalSelect(r.t, k, env)

\* an equality of two shape expressions has been encoded
ShapeEqEncoded ==
    /\ enc.fn = "Ctr" /\ enc.state = "returned" /\ ~enc.out.raised
    /\ enc.arg.opType = "Equal"
    /\ enc.arg.kids[1].expType = "Shape" /\ enc.arg.kids[2].expType = "Shape"

\* the formula of Eq(l, r) on shapes holds if and only if the arrays of l and
\* r agree at every index
ShapeEqIsExtensionality ==
    ShapeEqEncoded =>
        (EvalBool(enc.out.t, enc.env) <=>
            ArraysAgree(encodeExpShape(enc.arg.kids[1]), encodeExpShape(enc.arg.kids[2]),
                        enc.env))

\* C16: the formula of Eq(l, r) on shapes holds if and only if l and r agree
\* at every index and rank_of(l) = rank_of(r); in particular it entails that
\* the two ranks are equal.
C16_ShapeEqWithRanks ==
    ShapeEqEncoded =>
        (EvalBool(enc.out.t, enc.env) <=>
            /\ ArraysAgree(encodeExpShape(enc.arg.kids[1]), encodeExpShape(enc.arg.kids[2]),
                           enc.env)
            /\ RankOf(enc.arg.kids[1], enc.env) = RankOf(enc.arg.kids[2], enc.env))

\* the encoded shape reads -1 at every index outside [0, rank_of(s))
MaskedByRank(s, a, env) ==
    \A k \in IdxWindow :
        (k < 0 \/ k >= RankOf(s, env)) => EvalSelect(a.t, k, env) = -1

RECURSIVE StaysInRank(_, _)
\* every Set of the expression has its axis within the rank of its base, and
\* every operand of a Concat has a rank that is not negative
StaysInRank(s, env) ==
    CASE s.opType \in {"Const", "Symbol"} -> TRUE
      [] s.opType = "Set" ->
            /\ StaysInRank(s.kids[1], env)
            /\ 0 <= IntValue(s.kids[2], env)
            /\ IntValue(s.kids[2], env) < RankOf(s.kids[1], env)
      [] s.opType = "Slice" -> StaysInRank(s.kids[1], env)
      [] s.opType = "Concat" ->
            /\ StaysInRank(s.kids[1], env) /\ StaysInRank(s.kids[2], env)
            /\ RankOf(s.kids[1], env) >= 0 /\ RankOf(s.kids[2], env) >= 0
      [] s.opType = "Broadcast" ->
            StaysInRank(s.kids[1], env) /\ StaysInRank(s.kids[2], env)

\* a shape expression has been encoded
ShapeEncoded == enc.fn = "encodeExpShape" /\ enc.state = "returned" /\ ~enc.out.raised

\* C17 (as stated): for every shape expression, the array produced by
\* encodeExpShape reads -1 at every index i < 0 or i >= rank_of(s).
C17_AsStated == ShapeEncoded => MaskedByRank(enc.arg, enc.out, enc.env)

\* C17 (amended): the array reads -1 at every index outside [0, rank_of(s))
\* when every Set of s has its axis within the rank of its base and every
\* operand of a Concat has a non-negative rank.
C17_MaskedWhenInRank ==
    (ShapeEncoded /\ StaysInRank(enc.arg, enc.env)) =>
        MaskedByRank(enc.arg, enc.out, enc.env)

\* C17 witness: the encoded array of a symbolic shape whose symbol holds a
\* dimension beyond the declared rank
C17_Witness ==
    /\ ShapeEncoded /\ enc.arg.opType = "Symbol"
    /\ RankOf(enc.arg, enc.env) < MaxRank
    /\ enc.env.arr.X[RankOf(enc.arg, enc.env)] # -1
    /\ MaskedByRank(enc.arg, enc.out, enc.env)

\* the encoded formula is returned and holds in the interpretation
HoldsIn(r, env) == ~r.raised /\ EvalBool(r.t, env)

\* a Broadcastable constraint has been encoded
BcEncoded ==
    /\ enc.fn = "Ctr" /\ enc.state = "returned"
    /\ enc.arg.opType = "Broadcastable"

\* C18: the formula encoding Broadcastable(a, b) holds exactly when the
\* formula encoding Broadcastable(b, a) holds, for shapes of equal or
\* different ranks.
C18_BroadcastableSymmetric ==
    BcEncoded =>
        (HoldsIn(enc.out, enc.env) <=>
            HoldsIn(encodeBc(CtrBroadcastable(enc.arg.kids[2], enc.arg.kids[1])), enc.env))

\* C18 witness: Broadcastable holds of a shorter shape on the left and a
\* longer one on the right, aligned by the right on a dimension that is 1
C18_Witness ==
    /\ BcEncoded /\ HoldsIn(enc.out, enc.env)
    /\ enc.arg.kids[1] = ShapeConst(<<NumConst(1)>>, 1)
    /\ enc.arg.kids[2] = ShapeConst(<<NumConst(2), NumConst(MaxDim)>>, 2)

RECURSIVE EverySliceHasEnd(_)
\* no Slice of the expression leaves its end out
EverySliceHasEnd(s) ==
    /\ s.opType = "Slice" => "end" \in s.has
    /\ s.opType \in {"Set", "Slice"} => EverySliceHasEnd(s.kids[1])
    /\ s.opType \in {"Concat", "Broadcast"} =>
          EverySliceHasEnd(s.kids[1]) /\ EverySliceHasEnd(s.kids[2])

\* C19: for every shape expression getRank returns the logical rank of the
\* contract (for a Slice with any combination of present and absent start
\* and end), and it never fails.
C19_GetRankIsRankOf ==
    (enc.fn = "getRank" /\ enc.state = "returned") =>
        /\ ~enc.out.raised
        /\ EvalNum(enc.out.t, enc.env) = Rat(RankOf(enc.arg, enc.env), 1)

\* where no Slice leaves its end out, getRank returns the logical rank
GetRankWithEnds ==
    (enc.fn = "getRank" /\ enc.state = "returned" /\ EverySliceHasEnd(enc.arg)) =>
        /\ ~enc.out.raised
        /\ EvalNum(enc.out.t, enc.env) = Rat(RankOf(enc.arg, enc.env), 1)

\* ---------------------------------------------------------------- claims on the summary
\* the lines of the closing summary that count a bucket
SummaryKinds == {"Valid paths", "Invalid paths", "Undecidable paths", "Unreachable paths"}

RECURSIVE SummaryTotal(_)
\* the sum of the counts printed by the summary lines of a log
SummaryTotal(log) ==
    IF log = <<>> THEN 0
    ELSE (IF Head(log).kind \in SummaryKinds THEN Head(log).path ELSE 0)
            + SummaryTotal(Tail(log))

\* how often path index p (0-based) is filed, over all the lists
TimesFiled(p) ==
    TimesIn("ValidPaths", p) + TimesIn("SatPaths", p) + TimesIn("UnsatPaths", p)
        + TimesIn("DontknowPaths", p) + TimesIn("UnreachablePaths", p)

\* C20: after Z3Encoder.analyze has processed a non-empty document, every
\* path index is in exactly one of the buckets Valid, Invalid, Undecidable
\* (timeouts included) and Unreachable, and the counts printed in the closing
\* summary add up to the number of paths.
C20_BucketsPartitionPaths ==
    (entry = "Z3Encoder" /\ dpc = "done" /\ Len(doc) > 0) =>
        /\ \A p \in 0..(Len(doc) - 1) : TimesFiled(p) = 1
        /\ \A name \in BucketNames : \A j \in 1..Len(buckets[name]) :
              buckets[name][j] \in 0..(Len(doc) - 1)
        /\ Logged("OVERALL", Len(doc))
        /\ SummaryTotal(console) = Len(doc)

\* C20 witness: a summary over a document with an Unreachable path and a
\* path that timed out
C20_Witness ==
    /\ entry = "Z3Encoder" /\ dpc = "done"
    /\ Len(buckets.UnreachablePaths) >= 1
    /\ timedOut # {}
    /\ Logged("Unreachable paths", 1)
    /\ Logged("Undecidable paths", 1)

\* ---------------------------------------------------------------- claims on the localized soft check
\* the solver calls of checkSat made so far, in order
SoftQueries == SelectSeq(run.queries, LAMBDA q : q.stage = "checkSat")

\* the assertions the solver holds when the k-th candidate is queried, the
\* negated candidate left out
StateAt(k) == SubSeq(SoftQueries[k].asserted, 1, Len(SoftQueries[k].asserted) - 1)

\* the assertions entail the pool entry i
Holds(fs, i) == ModelsOfAll(fs) \subseteq Models(ListGet(ctrSet.ctrPool, i))

\* C21: when a candidate of the localized soft check is queried, the solver
\* state holds every hard and every path constraint of the set, wherever
\* they stand in ctrPool, and every soft entry confirmed before.
C21_StateHoldsHardPathAndConfirmed ==
    \A k \in 1..Len(SoftQueries) :
        /\ \A i \in Indices(ctrSet.hardIdx) \cup Indices(ctrSet.pathIdx) : Holds(StateAt(k), i)
        /\ \A j \in 1..(k - 1) : Holds(StateAt(k), ctrSet.softIdx[j])

\* what the state does hold: the pool entries before the candidate that are
\* not soft entries queried earlier, and with them the confirmed soft entries
PrefixHeld ==
    \A k \in 1..Len(SoftQueries) :
        /\ IsAscending(ctrSet.softIdx) =>
              \A i \in 0..(SoftQueries[k].idx - 1) : Holds(StateAt(k), i)
        /\ \A j \in 1..(k - 1) : Holds(StateAt(k), ctrSet.softIdx[j])

\* C22: the localized soft check queries the soft entries in their list
\* order and stops at the first candidate whose query is not unsat: sat gives
\* Invalid with conflict = the candidate's pool index, unknown gives
\* Undecidable with undecide = that index, no later candidate is queried, and
\* the check ends in Valid only when every candidate returned unsat.
C22_SoftCheckInListOrder ==
    /\ Len(SoftQueries) <= Len(ctrSet.softIdx)
    /\ \A k \in 1..Len(SoftQueries) :
          /\ SoftQueries[k].idx = ctrSet.softIdx[k]
          /\ k < Len(SoftQueries) => SoftQueries[k].answer = "unsat"
          /\ SoftQueries[k].answer = "sat" =>
                /\ Done /\ Ret.type = Unsat
                /\ Ret.extras = {Entry("conflict", PyInt(ctrSet.softIdx[k]))}
          /\ SoftQueries[k].answer = "unknown" =>
                /\ Done /\ Ret.type = DontKnow
                /\ Ret.extras = {Entry("undecide", PyInt(ctrSet.softIdx[k]))}
    /\ (Done /\ Ret.type = Valid /\ SoftQueries # <<>>) =>
          /\ Len(SoftQueries) = Len(ctrSet.softIdx)
          /\ \A k \in 1..Len(SoftQueries) : SoftQueries[k].answer = "unsat"

\* C22 witness: a soft list that is not in pool order, its first candidate
\* confirmed and its second left undecided
C22_Witness ==
    /\ Done /\ Len(SoftQueries) = 2 /\ Len(ctrSet.softIdx) = 3
    /\ ctrSet.softIdx[1] > ctrSet.softIdx[2]
    /\ SoftQueries[2].answer = "unknown"
    /\ Ret.extras = {Entry("undecide", PyInt(ctrSet.softIdx[2]))}

\* ---------------------------------------------------------------- claims on the validity shortcut
\* the premise: the conjunction of the hard and the path constraints
Premise(cs) == And(cs.assumptions \o cs.pathCtrs)

\* C23: on a reachable path with a non-empty soft list, an unsat answer to
\* Not(Implies(And(hard and path), And(soft))) classifies the path Valid
\* with empty extras and the localized soft check is never started; on a
\* reachable path with an empty soft list, a sat answer to the premise alone
\* classifies it Valid.
C23_ValidityShortcut ==
    Len(run.queries) >= 2 =>
        /\ run.queries[1].answer # "unsat"
        /\ run.queries[2].stage = "checkValidity"
        /\ run.queries[2].asserted =
              IF ctrSet.softIdx # <<>>
              THEN <<Not(Implies(Premise(ctrSet), And(ctrSet.softCtrs)))>>
              ELSE <<Premise(ctrSet)>>
        /\ run.queries[2].answer = (IF ctrSet.softIdx # <<>> THEN "unsat" ELSE "sat") =>
              /\ Done /\ Ret.type = Valid /\ Ret.extras = {}
              /\ Len(run.queries) = 2

\* C23 witness: a path with a premise and two soft entries classified Valid
\* by the shortcut
C23_Witness ==
    /\ Done /\ Len(run.queries) = 2
    /\ Len(ctrSet.softIdx) = 2 /\ ctrSet.hardIdx # <<>>
    /\ run.queries[2].answer = "unsat"
    /\ Ret.type = Valid

\* ---------------------------------------------------------------- C24
\* the expression holds a float constant, a Float symbol or a TrueDiv
\* somewhere in its tree
RECURSIVE HasReal(_)
HasReal(e) ==
    \/ e.expType = "Num" /\ e.opType = "Const" /\ e.float
    \/ e.expType = "Num" /\ e.opType = "Symbol" /\ e.sub = "Float"
    \/ e.expType = "Num" /\ e.opType = "Bop" /\ e.sub = "TrueDiv"
    \/ \E k \in 1..Len(e.kids) : HasReal(e.kids[k])

NumEncoded == enc.fn = "encodeExpNum" /\ enc.state = "returned" /\ ~enc.out.raised

\* C24: encodeExpNum yields a real-sorted term exactly when the expression
\* holds a float constant, a Float symbol or a TrueDiv anywhere in its tree,
\* and an integer-sorted term otherwise
C24_SortIsStructural ==
    NumEncoded =>
        /\ enc.out.t.sort \in {"Int", "Real"}
        /\ enc.out.t.sort = "Real" <=> HasReal(enc.arg)

\* the sort the code gives: a symbol of any type but Int is real, Floor and
\* Ceil, Index and Numel are integers whatever they are applied to
RECURSIVE RealSorted(_)
RealSorted(e) ==
    CASE e.opType = "Const" -> e.float
      [] e.opType = "Symbol" -> e.sub # "Int"
      [] e.opType = "Bop" ->
            \/ e.sub = "TrueDiv"
            \/ RealSorted(e.kids[1]) \/ RealSorted(e.kids[2])
      [] e.opType = "Uop" -> e.sub \in {"Neg", "Abs"} /\ RealSorted(e.kids[1])
      [] e.opType \in {"Max", "Min"} -> \E k \in 1..Len(e.kids) : RealSorted(e.kids[k])
      [] OTHER -> FALSE

SortFollowsCode ==
    NumEncoded =>
        /\ enc.out.t.sort \in {"Int", "Real"}
        /\ enc.out.t.sort = "Real" <=> RealSorted(enc.arg)

\* ---------------------------------------------------------------- C25
\* the array a reads l[i] on [0, rl), r[i - rl] on [rl, rl + rr) and -1 at
\* every other index; l and r are the encoded operands, rl and rr their ranks
ConcatReads(a, l, r, rl, rr, env) ==
    \A k \in IdxWindow :
        EvalSelect(a.t, k, env) =
            IF 0 <= k /\ k < rl THEN EvalSelect(l.t, k, env)
            ELSE IF rl <= k /\ k < rl + rr THEN EvalSelect(r.t, k - rl, env)
            ELSE -1

ConcatEncoded == ShapeEncoded /\ enc.arg.opType = "Concat"

\* C25: the array encoding Concat(l, r) reads l[i] at 0 <= i < rank_of(l),
\* r[i - rank_of(l)] at rank_of(l) <= i < rank_of(l) + rank_of(r), and -1 at
\* every other index
C25_ConcatIsPiecewise ==
    ConcatEncoded =>
        ConcatReads(enc.out, encodeExpShape(enc.arg.kids[1]), encodeExpShape(enc.arg.kids[2]),
                    RankOf(enc.arg.kids[1], enc.env), RankOf(enc.arg.kids[2], enc.env),
                    enc.env)

\* a Concat of two shapes of rank 1 or more whose first entries differ has
\* been encoded: index rank_of(l) reads the first entry of r
C25_Witness ==
    /\ ConcatEncoded
    /\ RankOf(enc.arg.kids[1], enc.env) >= 1 /\ RankOf(enc.arg.kids[2], enc.env) >= 1
    /\ \E r \in {encodeExpShape(enc.arg.kids[2])} :
          /\ EvalSelect(enc.out.t, RankOf(enc.arg.kids[1], enc.env), enc.env)
                = EvalSelect(r.t, 0, enc.env)
          /\ EvalSelect(r.t, 0, enc.env) # EvalSelect(r.t, RankOf(enc.arg.kids[1], enc.env), enc.env)
          /\ EvalSelect(r.t, 0, enc.env) # -1

\* ---------------------------------------------------------------- C26
\* C26: for a constraint set whose soft list is empty, analysis returns only
\* Unreachable or Valid: once the reachability query is not answered unsat the
\* path is Valid whatever the solver answers afterwards, never Invalid or
\* Undecidable, and the localized soft check makes no solver call
C26_EmptySoftListTwoOutcomes ==
    ctrSet.softIdx = <<>> =>
        /\ run.pc # "checkSat"
        /\ \A q \in 1..Len(run.queries) : run.queries[q].stage # "checkSat"
        /\ Done =>
              /\ Ret.type \in {Unreachable, Valid}
              /\ Ret.type = Unreachable <=> run.queries[1].answer = "unsat"
              /\ Ret.type = Valid => Ret.extras = {}

\* C26 witness: a path with hard constraints and no soft one is Valid although
\* the solver did not decide the premise in the validity check
C26_Witness ==
    /\ Done /\ ctrSet.softIdx = <<>> /\ ctrSet.hardIdx # <<>>
    /\ Len(run.queries) = 2
    /\ run.queries[1].answer # "unsat"
    /\ run.queries[2].answer = "unknown"
    /\ Ret.type = Valid

\* ---------------------------------------------------------------- C27
\* the extras hold the one key, with one index of the soft list as its value
OneSoftIndex(key) ==
    /\ Keys(Ret.extras) = {key} /\ Cardinality(Ret.extras) = 1
    /\ Extra(key).tag = "int"
    /\ Extra(key).n \in Indices(ctrSet.softIdx)

\* C27: analysis returns a type in {Unreachable, Valid, Unsat, DontKnow},
\* never Sat or Timeout, and the type determines the keys of extras: Valid has
\* none, Unsat has conflict with one index of softCtr, DontKnow has undecide
\* with one index of softCtr, Unreachable has conflict with a list of pool
\* indices
C27_TypeDeterminesExtras ==
    Done =>
        /\ Ret.type \in {Unreachable, Valid, Unsat, DontKnow}
        /\ Ret.type \notin {Sat, Timeout}
        /\ Ret.type = Valid => Ret.extras = {}
        /\ Ret.type = Unsat => OneSoftIndex("conflict")
        /\ Ret.type = DontKnow => OneSoftIndex("undecide")
        /\ Ret.type = Unreachable =>
              /\ Keys(Ret.extras) = {"conflict"} /\ Cardinality(Ret.extras) = 1
              /\ Extra("conflict").tag = "list"
              /\ \A k \in 1..Len(Extra("conflict").l) :
                    Extra("conflict").l[k] \in 0..(Len(ctrSet.ctrPool) - 1)

\* C27 witness: an Undecidable report whose undecide entry is the first of
\* two soft indices
C27_Witness ==
    /\ Done /\ Ret.type = DontKnow
    /\ Len(ctrSet.softIdx) = 2
    /\ Ret.extras = {Entry("undecide", PyInt(ctrSet.softIdx[1]))}

\* ---------------------------------------------------------------- C28
\* what a slot holds was stored by the worker of its own call
SlotOwned ==
    \A k \in 1..Len(res) :
        /\ res[k] = "unset" <=> workers[k].state = "none"
        /\ res[k] = "value" => workers[k].state = "ended" /\ workers[k].run.pc = "done"
        /\ res[k] = "Z3Exception" => workers[k].state = "ended"

\* the call for path k was answered with a TimeoutError
FiledAsTimeout(k) ==
    IF entry = "PyTeaServer" THEN result[k] = serverTimeoutObj
    ELSE /\ \E n \in 1..Len(console) : console[n] = [kind |-> "Timeout Path", path |-> k]
         /\ TimesFiled(k - 1) = 1
         /\ \E n \in 1..Len(buckets.DontknowPaths) : buckets.DontknowPaths[n] = k - 1

\* the call for path k was answered with the value of its own worker
FiledAsValue(k) ==
    /\ res[k] = "value"
    /\ IF entry = "PyTeaServer" THEN result[k] = serverResultObj(workers[k].run.ret[1])
       ELSE /\ \A n \in 1..Len(console) : console[n] # [kind |-> "Timeout Path", path |-> k]
            /\ TimesFiled(k - 1) = 1

\* every call that has returned to the loop keeps the answer it was given
AnswersKept ==
    \A n \in 1..Len(order) :
        IF order[n] \in timedOut THEN FiledAsTimeout(order[n]) ELSE FiledAsValue(order[n])

\* the caller reads the slot after the join has returned
ReadsOwnSlot ==
    (dpc = "read" /\ dpc' \notin {"read", "crashed"}) =>
        /\ res[cur] \in {"value", "Z3Exception", "TimeoutError"}
        /\ res[cur] = "value" =>
              dpc' = "loop" /\ order' = Append(order, cur) /\ cur \notin timedOut'
        /\ res[cur] = "Z3Exception" => dpc' = "raised" /\ exc' = "Z3Exception"
        /\ res[cur] = "TimeoutError" =>
              dpc' = "loop" /\ order' = Append(order, cur) /\ cur \in timedOut'

\* C28: a call timeout(t)(f)() returns f's value or re-raises f's exception
\* exactly when the worker stored it in the call's slot before the caller
\* reads the slot after the join; otherwise the caller raises TimeoutError,
\* and what the worker stores afterwards is observed neither by this call nor
\* by the call of a later path: every call owns its slot
C28_EachCallOwnsItsSlot == [](SlotOwned /\ AnswersKept) /\ [][ReadsOwnSlot]_vars

\* C28 witness: the worker of path 1 stored its value after the call had
\* raised TimeoutError, and the call for path 2 has timed out as well
C28_Witness ==
    /\ Len(order) >= 2
    /\ {1, 2} \subseteq timedOut
    /\ res[1] = "value" /\ res[2] = "TimeoutError"
    /\ FiledAsTimeout(1) /\ FiledAsTimeout(2)

\* ---------------------------------------------------------------- C29
\* the pool indices range(last_soft_idx, curr_soft_idx) of the j-th turn of
\* checkSat's loop
TurnRange(j) ==
    Range(IF j = 1 THEN 0 ELSE ctrSet.softIdx[j - 1] + 1, ctrSet.softIdx[j])

\* before its k-th query the solver holds, outside push and pop, one
\* conjunction for each turn so far: that of the pool entries of the turn's range
StateIsTurnRanges ==
    \A k \in 1..Len(SoftQueries) :
        StateAt(k) = [j \in 1..k |-> And(Formulas(ctrSet.ctrPool, TurnRange(j)))]

\* none of the entries asserted in the turns 1..k is a soft constraint, and
\* none is asserted in two turns
OnlyNonSoftOnce(k) ==
    /\ \A j \in 1..k : Indices(TurnRange(j)) \cap Indices(ctrSet.softIdx) = {}
    /\ \A i, j \in 1..k : i < j => Indices(TurnRange(i)) \cap Indices(TurnRange(j)) = {}

\* C29: in checkSat, for every soft list with unique indices, ascending in
\* pool order or not, no soft constraint is added to the solver un-negated and
\* no pool entry is asserted more than once: the assertions outside push and
\* pop are only non-soft pool entries
C29_OnlyNonSoftAsserted ==
    \A k \in 1..Len(SoftQueries) :
        /\ StateAt(k) = [j \in 1..k |-> And(Formulas(ctrSet.ctrPool, TurnRange(j)))]
        /\ OnlyNonSoftOnce(k)

\* for a soft list in ascending pool order the assertions outside push and
\* pop are non-soft pool entries, each asserted once
AscendingOnlyNonSoft ==
    IsAscending(ctrSet.softIdx) => \A k \in 1..Len(SoftQueries) : OnlyNonSoftOnce(k)

\* ---------------------------------------------------------------- C30
\* Z3Encoder.analyze is given a non-empty document whose paths all encode
EncodableCliRun ==
    /\ entry = "Z3Encoder" /\ dpc = "start"
    /\ Len(doc) > 0
    /\ \A k \in 1..Len(doc) : ~CtrSetRaises(doc[k])

SummaryLogged ==
    \E n \in 1..Len(console) : console[n] = [kind |-> "OVERALL", path |-> Len(doc)]

\* C30: for every non-empty document whose paths all encode without error,
\* Z3Encoder.analyze eventually logs the overall summary, even if the solver
\* call of some path never returns, under fair scheduling of the driver thread
C30_SummaryEventuallyLogged == EncodableCliRun => <>SummaryLogged

\* on a document of one path, where no other thread is in the solver when the
\* path is encoded and analysed, the summary is eventually logged
OnePathSummaryLogged == (EncodableCliRun /\ Len(doc) = 1) => <>SummaryLogged

\* the summary is logged unless analyze raised or the process went down
SummaryUnlessRaceFails == EncodableCliRun => <>(SummaryLogged \/ dpc \in {"raised", "crashed"})

====
